---- MODULE Spec2Model ----
(***************************************************************************)
(* Call-history -> calendar synchronisation: the sync orchestrator         *)
(* (src/src/sync_service.py), the sync ledger (src/src/sync_database.py),  *)
(* the calendar gateway (src/src/google_calendar.py) and the call source   *)
(* (src/src/call_database.py).                                             *)
(*                                                                         *)
(* One process runs sync() at a time (Spec); the process can be killed     *)
(* between any two statements that touch the ledger or the remote          *)
(* calendar.  The remote calendar can be deleted, and another installation *)
(* of the same account can add events to it.                               *)
(***************************************************************************)
EXTENDS Integers, Sequences, FiniteSets, TLC

\* ------------------------------------------------------------------------
\* Bounds of the model
\* ------------------------------------------------------------------------
MaxRows == 3             \* rows of the call source
MaxRuns == 2             \* sync() invocations in one behaviour
MaxEnvSteps == 1         \* steps of the environment in one behaviour: kills of
                         \* the process, deletions of the remote calendar,
                         \* events of another installation, --all-history
MaxFullFail == 3         \* chunks up to this size take every per-item failure set
MaxLedgerOps == 5        \* operations on the ledger file in one behaviour
MaxCalendars == 2        \* calendars of the account
MaxRunsEach == 1         \* sync() invocations of each of two overlapping processes
MaxGatewayOps == 3       \* gateway methods called in one behaviour
MaxExternalWrites == 1   \* events another writer adds during one clear_calendar
MaxIncompletePages == 1  \* pages the service returns incomplete
MaxDeleteFailures == 1   \* batches in which deletions fail
MaxDeletedCount == 60    \* deleted_count is counted up to here when deletions keep failing
MaxSourceRows == 2       \* rows of ZCALLRECORD when get_calls is taken alone
MaxEventOps == 1         \* calls of create_event_from_call and
                         \* create_events_batch in one behaviour

\* ------------------------------------------------------------------------
\* Program constants
\* ------------------------------------------------------------------------
DEFAULT_SYNC_DAYS == 30
BATCH_SIZE == 50
MIN_AGE_SECONDS == 120
CONNECT_SECONDS == 5
MIN_EVENT_SECONDS == 60
CLEAR_PAGE_SIZE == 50
APPLE_EPOCH_OFFSET == 978307200
PROBE_SIZE == 1
DEFAULT_CALENDAR_NAME == "Call Tracking"
CALENDAR_DESCRIPTION_MARKER == "Automatically synced call history from macOS"
Day == 86400

\* The clock: datetime.now(timezone.utc), in seconds; it does not advance
\* during the few runs of one behaviour.
Now == 4000000

NoCalendar == 0          \* Optional[str] calendar id: None
None == <<>>             \* Optional value: None
Some(x) == <<x>>         \* Optional value: present

\* ------------------------------------------------------------------------
\* Input sets
\* ------------------------------------------------------------------------
CallIds == {"c1", "c2"}
OldDate == Now - 40 * Day
RecentDate == Now - 10 * Day
ExplicitSince == Now - 50 * Day

\* CallRecord (call_database.py).  Call c1 is 10 days old, call c2 is 40
\* days old; a row is an answered incoming call of 60 s or a connected
\* outgoing call of 999 s.
DateOf(id) == IF id = "c1" THEN RecentDate ELSE OldDate

CallRecords ==
    { [unique_id |-> id, timestamp |-> DateOf(id), duration_seconds |-> s.d,
       is_answered |-> s.a, is_outgoing |-> s.o] :
        id \in CallIds,
        s \in { [d |-> 60, a |-> TRUE, o |-> FALSE],
                [d |-> 999, a |-> FALSE, o |-> TRUE] } }

Range(s) == { s[k] : k \in 1..Len(s) }

IsSortedByDate(s) ==
    \A k \in 1..(Len(s) - 1) : s[k].timestamp <= s[k + 1].timestamp

\* Tables of the call source: at most MaxRows rows, oldest first.
SourceTables ==
    UNION { { s \in [1..n -> CallRecords] : IsSortedByDate(s) } : n \in 0..MaxRows }

SyncOptions ==
    [answered_only : {TRUE}, since : {None, Some(ExplicitSince)},
     dry_run : BOOLEAN, use_batch : BOOLEAN]

VARIABLES
    \* sync ledger (sync_database.py)
    synced_calls,        \* table synced_calls: call_unique_id -> google_event_id
    settings,            \* table settings
    \* remote calendar service
    remote_calendar,     \* id of the calendar carrying the configured name
    calendars_created,   \* calendars created so far (fresh ids)
    events,              \* events of that calendar
    next_event_id,
    \* call source (call_database.py)
    call_rows,
    call_db_kind,        \* "CallDatabase" or "Injected"
    \* one sync() run: program counter and locals
    pc,
    opts,
    gateway_calendar_id, \* GoogleCalendar._calendar_id
    since,
    synced_ids,
    all_calls,
    calls_to_sync,
    calls_skipped,
    calls_synced,
    errors,
    i,                   \* loop index of the creation / marking loop
    event_id,            \* event id returned by create_event_from_call
    results,             \* create_events_batch: results
    batch_start,         \* create_events_batch: batch_start
    \* what the caller of sync() gets back
    result,
    \* history
    submitted,           \* calls handed to the gateway by this run
    created,             \* the events this run created remotely: [id, call_id]
    cleared,             \* call ids this run's drift check removed from the ledger
    requests,            \* create_events_batch: size of each batched request sent
    failed_outright,     \* create_events_batch: positions of the calls of the
                         \* chunks whose request failed outright
    repeat,              \* this run repeats the options of the run before it,
                         \* which returned success, and nothing happened between
    last_clean,          \* the last run returned success and nothing happened since
    runs,
    env_steps,
    \* faults met by this run
    ledger_failed,       \* ledger operations that raised in this run
    checked,             \* what check_prerequisites found in this run
    \* the ledger file as SQLite holds it (sync_database.py)
    tables_exist,        \* the tables synced_calls and settings exist
    synced_rows,         \* rows of synced_calls
    setting_rows,        \* rows of settings
    clock,               \* ledger operations so far (synced_at)
    last_op,             \* the last ledger operation: who, what, its answer
    \* the calendar gateway by itself (google_calendar.py)
    calendar_list,       \* calendarList of the account: [id, summary, description]
    _calendar_name,      \* GoogleCalendar._calendar_name
    _calendar_id,        \* GoogleCalendar._calendar_id
    gateway_op,          \* the last gateway method that ended: what, its answer
    gateway_ops,         \* gateway methods called so far
    clear_pc,            \* clear_calendar: where it stands
    behind,              \* events of the calendar up to the listing position
    ahead,               \* events of the calendar after the listing position
    total_events,        \* clear_calendar: total_events
    deleted_count,       \* clear_calendar: deleted_count
    page,                \* clear_calendar: len(events) of the page listed
    page_token,          \* clear_calendar: page_token (a flag: None or a token)
    next_token,          \* nextPageToken of the page listed
    zero_listing,        \* a listing of this clear_calendar returned no item
    external_writes,     \* events another writer added during this clear_calendar
    incomplete_pages,    \* pages the service returned incomplete
    delete_failures,     \* deletions of a batch that failed
    \* the events the gateway builds (google_calendar.py)
    inserted,            \* events of the calendar: id, body, the call it is from
    event_op,            \* the last event method: the calls, the bodies, the answer
    event_ops,           \* calls of the creating methods so far
    \* the call history database (call_database.py)
    ZCALLRECORD,         \* rows of the table ZCALLRECORD
    query_op,            \* the last get_calls: its arguments, what it yielded
    \* two processes running sync() at once (sync_service.py)
    proc,                \* per process: its position in sync() and its locals
    \* the progress callback of sync() (sync_service.py, google_calendar.py)
    progress_calls       \* the (completed, total) on_progress got in this run, in order

ledgerVars == <<synced_calls, settings>>
remoteVars == <<remote_calendar, calendars_created, events, next_event_id>>
sourceVars == <<call_rows, call_db_kind>>
localVars == <<opts, gateway_calendar_id, since, synced_ids, all_calls,
               calls_to_sync, calls_skipped, calls_synced, errors, i,
               event_id, results, batch_start>>
historyVars == <<submitted, created, cleared, requests, failed_outright>>
envVars == <<env_steps>>
faultVars == <<ledger_failed, checked>>
storeVars == <<tables_exist, synced_rows, setting_rows, clock, last_op>>
calendarVars == <<calendar_list, _calendar_name, _calendar_id, gateway_op,
                  gateway_ops>>
clearVars == <<clear_pc, behind, ahead, total_events, deleted_count, page,
               page_token, next_token, zero_listing, external_writes,
               incomplete_pages, delete_failures>>
gatewayVars == <<calendarVars, clearVars>>
bodyVars == <<inserted, event_op, event_ops>>
queryVars == <<ZCALLRECORD, query_op>>
overlapVars == <<proc>>
progressVars == <<progress_calls>>
otherUnits == <<gatewayVars, bodyVars, queryVars, overlapVars>>
unitVars == <<otherUnits, progressVars>>

log == <<repeat, last_clean>>
pipelineVars == <<ledgerVars, remoteVars, sourceVars, pc, localVars, result,
                  historyVars, log, runs, envVars, faultVars, overlapVars,
                  progressVars>>

vars == <<ledgerVars, remoteVars, sourceVars, pc, localVars, result,
          historyVars, log, runs, envVars, faultVars, storeVars, unitVars>>

\* ------------------------------------------------------------------------
\* Sync ledger (sync_database.py)
\* ------------------------------------------------------------------------
NoSettings ==
    [initial_sync_done |-> "None", sync_all_history |-> "None",
     calendar_id |-> NoCalendar]

get_synced_call_ids(table) == DOMAIN table

\* An update that names no row: every record takes the new event id
mark_call_synced_AllRows(table, call_unique_id, google_event_id) ==
    [ k \in (DOMAIN table) \cup {call_unique_id} |-> google_event_id ]

mark_call_synced(table, call_unique_id, google_event_id) ==
    [ k \in (DOMAIN table) \cup {call_unique_id} |->
        IF k = call_unique_id THEN google_event_id ELSE table[k] ]

clear_all_synced_calls(table) == [ k \in {} |-> 0 ]

\* A write that is never committed
set_setting_Lost(st, key, value) == st

set_setting(st, key, value) == [st EXCEPT ![key] = value]

\* ------------------------------------------------------------------------
\* Call source (call_database.py)
\* ------------------------------------------------------------------------
\* WHERE clause of get_calls
Matches(row, since_, answered_only) ==
    /\ row.timestamp < Now - MIN_AGE_SECONDS
    /\ (since_ # None => row.timestamp >= since_[1])
    /\ (answered_only =>
            (row.is_answered
             \/ (row.is_outgoing /\ row.duration_seconds > CONNECT_SECONDS)))

Filtered(rows, since_, answered_only) ==
    LET Test(r) == Matches(r, since_, answered_only)
    IN  SelectSeq(rows, Test)

IdsOf(rows) == { rows[k].unique_id : k \in 1..Len(rows) }

\* GROUP BY ZUNIQUE_ID ORDER BY ZDATE ASC: one row of each group (SQLite
\* takes the bare columns from an arbitrary row of the group), oldest first.
GroupedResults(rows) ==
    LET n == Cardinality(IdsOf(rows))
    IN  { r \in [1..n -> Range(rows)] :
            /\ \A a, b \in 1..n : a # b => r[a].unique_id # r[b].unique_id
            /\ IsSortedByDate(r) }

\* The lists get_calls can yield.  The CallDatabase of this repository
\* groups by id; a call source injected into SyncService (as the tests do)
\* yields its rows as they are.
get_calls(rows, kind, since_, answered_only) ==
    IF kind = "CallDatabase"
    THEN GroupedResults(Filtered(rows, since_, answered_only))
    ELSE { Filtered(rows, since_, answered_only) }

\* ------------------------------------------------------------------------
\* Sync orchestrator: pure parts (sync_service.py)
\* ------------------------------------------------------------------------
\* _get_default_since that looks at sync_all_history only
_get_default_since_NoInitialFlag(st) ==
    IF st.sync_all_history = "true" THEN None
    ELSE Some(Now - DEFAULT_SYNC_DAYS * Day)

\* _get_default_since that limits every run to the last 30 days
_get_default_since_Always(st) == Some(Now - DEFAULT_SYNC_DAYS * Day)

_get_default_since(st) ==
    IF st.sync_all_history = "true" THEN None
    ELSE IF st.initial_sync_done = "true" THEN None
    ELSE Some(Now - DEFAULT_SYNC_DAYS * Day)

\* The loop of lines 258-263
RECURSIVE FilterLoop(_, _, _, _, _)
FilterLoop(calls, known, k, seen, acc) ==
    IF k > Len(calls) THEN acc
    ELSE LET c == calls[k]
         IN  IF c.unique_id \notin known /\ c.unique_id \notin seen
             THEN FilterLoop(calls, known, k + 1, seen \cup {c.unique_id},
                             Append(acc, c))
             ELSE FilterLoop(calls, known, k + 1, seen, acc)

\* FilterCalls without the test against the ledger's synced ids
FilterCalls_IgnoreLedger(calls, known) == FilterLoop(calls, {}, 1, {}, <<>>)

\* FilterCalls keeping the last occurrence of an id instead of the first
RECURSIVE FilterLoopLast(_, _, _, _, _)
FilterLoopLast(calls, known, k, seen, acc) ==
    IF k < 1 THEN acc
    ELSE LET c == calls[k]
         IN  IF c.unique_id \notin known /\ c.unique_id \notin seen
             THEN FilterLoopLast(calls, known, k - 1, seen \cup {c.unique_id},
                                 <<c>> \o acc)
             ELSE FilterLoopLast(calls, known, k - 1, seen, acc)

FilterCalls_KeepLast(calls, known) ==
    FilterLoopLast(calls, known, Len(calls), {}, <<>>)

FilterCalls(calls, known) == FilterLoop(calls, known, 1, {}, <<>>)

Error(msg, call_id) == [msg |-> msg, call_id |-> call_id]

SyncResult(status, success, synced, skipped, errs) ==
    [status |-> status, success |-> success, calls_synced |-> synced,
     calls_skipped |-> skipped, errors |-> errs]

NoResult == SyncResult("none", FALSE, 0, 0, <<>>)

\* An exception leaves sync(): the caller gets no SyncResult
Raised(where) == SyncResult("exception", FALSE, 0, 0, <<Error(where, "")>>)

\* ------------------------------------------------------------------------
\* Calendar gateway: pure parts (google_calendar.py)
\* ------------------------------------------------------------------------
\* get_or_create_calendar: the cached id, else the calendar found by name,
\* else a calendar created now.
CalendarIdOf(cache, remote, created_) ==
    IF cache # NoCalendar THEN cache
    ELSE IF remote # NoCalendar THEN remote
    ELSE created_ + 1

RemoteAfterLookup(cache, remote, created_) ==
    IF cache = NoCalendar /\ remote = NoCalendar THEN created_ + 1 ELSE remote

CreatedAfterLookup(cache, remote, created_) ==
    IF cache = NoCalendar /\ remote = NoCalendar THEN created_ + 1 ELSE created_

Max(a, b) == IF a >= b THEN a ELSE b
Min(a, b) == IF a <= b THEN a ELSE b

\* _build_event_body without the private tag
_build_event_body_NoTag(call) ==
    [callUniqueId |-> "",
     start |-> call.timestamp,
     end |-> call.timestamp + Max(call.duration_seconds, MIN_EVENT_SECONDS)]

\* _build_event_body that ends the event when the call ended
_build_event_body_NoMinimum(call) ==
    [callUniqueId |-> call.unique_id,
     start |-> call.timestamp,
     end |-> call.timestamp + call.duration_seconds]

\* _build_event_body: the fields of the event that the claims speak of
_build_event_body(call) ==
    [callUniqueId |-> call.unique_id,
     start |-> call.timestamp,
     end |-> call.timestamp + Max(call.duration_seconds, MIN_EVENT_SECONDS)]

RemoteEvent(id, body, origin) ==
    [id |-> id, callUniqueId |-> body.callUniqueId, start |-> body.start,
     end |-> body.end, origin |-> origin]

\* ------------------------------------------------------------------------
\* Initial state: a fresh ledger, no remote calendar, no process
\* ------------------------------------------------------------------------
NoOptions ==
    [answered_only |-> TRUE, since |-> None, dry_run |-> FALSE,
     use_batch |-> TRUE]

InitLocals ==
    /\ opts = NoOptions
    /\ gateway_calendar_id = NoCalendar
    /\ since = None
    /\ synced_ids = {}
    /\ all_calls = <<>>
    /\ calls_to_sync = <<>>
    /\ calls_skipped = 0
    /\ calls_synced = 0
    /\ errors = <<>>
    /\ i = 1
    /\ event_id = 0
    /\ results = <<>>
    /\ batch_start = 0

InitFaults ==
    /\ ledger_failed = {}
    /\ checked = None

\* sync.db does not exist yet
NoOperation == [client |-> 0, op |-> "none", key |-> "", answer |-> None,
                error |-> FALSE]

InitStore ==
    /\ tables_exist = FALSE
    /\ synced_rows = {}
    /\ setting_rows = {}
    /\ clock = 0
    /\ last_op = NoOperation

NoGatewayOp == [op |-> "none", answer |-> None, error |-> FALSE]

InitClear ==
    /\ clear_pc = "idle"
    /\ behind = 0
    /\ total_events = 0
    /\ deleted_count = 0
    /\ page = 0
    /\ page_token = FALSE
    /\ next_token = FALSE
    /\ zero_listing = FALSE
    /\ external_writes = 0
    /\ incomplete_pages = 0
    /\ delete_failures = 0

\* No gateway of its own: the pipeline above holds the calendar
InitGateway ==
    /\ calendar_list = <<>>
    /\ _calendar_name = DEFAULT_CALENDAR_NAME
    /\ _calendar_id = NoCalendar
    /\ gateway_op = NoGatewayOp
    /\ gateway_ops = 0
    /\ ahead = 0
    /\ InitClear

NoEventOp == [op |-> "none", calls |-> <<>>, bodies |-> <<>>,
              answer |-> None, error |-> FALSE]

InitBody ==
    /\ inserted = {}
    /\ event_op = NoEventOp
    /\ event_ops = 0

NoQuery == [op |-> "none", args |-> None, answer |-> <<>>]

InitQuery ==
    /\ ZCALLRECORD = {}
    /\ query_op = NoQuery

\* The processes that run sync(): the launch agent's `--sync` process
\* (launchagent.py:81-86) and the preferences window (ui/preferences.py:448)
Procs == {"agent", "window"}

\* The locals of a process that is not in sync()
NoRun ==
    [pc |-> "idle", runs |-> 0, use_batch |-> FALSE, since |-> None,
     synced_ids |-> {}, ledger_at_read |-> {}, calls_to_sync |-> <<>>,
     i |-> 1, event_id |-> 0, results |-> <<>>, created |-> {},
     errors |-> <<>>]

InitProcs == proc = [ p \in Procs |-> NoRun ]

\* No call of on_progress yet
InitProgress == progress_calls = <<>>

InitUnits == InitGateway /\ InitBody /\ InitQuery /\ InitProcs /\ InitProgress

InitCommon ==
    /\ synced_calls = [ k \in {} |-> 0 ]
    /\ settings = NoSettings
    /\ remote_calendar = NoCalendar
    /\ calendars_created = 0
    /\ events = {}
    /\ next_event_id = 1
    /\ InitLocals
    /\ result = NoResult
    /\ submitted = <<>>
    /\ created = {}
    /\ cleared = {}
    /\ requests = <<>>
    /\ failed_outright = {}
    /\ repeat = FALSE
    /\ last_clean = FALSE
    /\ runs = 0
    /\ env_steps = 0
    /\ InitFaults
    /\ InitStore

Init ==
    /\ InitCommon
    /\ call_rows \in SourceTables
    /\ call_db_kind \in {"CallDatabase", "Injected"}
    /\ pc = "idle"
    /\ InitUnits

\* sync() hands `res` back to its caller (status "returned"), lets an
\* exception escape (status "exception"), or the process dies ("killed").
Finish(res) ==
    /\ pc' = "idle"
    /\ result' = res
    /\ last_clean' = (res.status = "returned" /\ res.success /\ ~opts.dry_run)
    /\ UNCHANGED repeat

\* An abort that reports success
Abort_Success(errs) == Finish(SyncResult("returned", TRUE, 0, 0, errs))

\* lines 171-179, 183-191, 217-224, 237-255: return SyncResult(success=False,
\* calls_synced=0, calls_skipped=0, errors=[...])
Abort(errs) == Finish(SyncResult("returned", FALSE, 0, 0, errs))

\* ------------------------------------------------------------------------
\* sync(): one action per step of the pipeline (sync_service.py:141-340)
\* ------------------------------------------------------------------------
\* A new process (main, started by the launch agent) invokes
\* sync(answered_only, since, dry_run, use_batch).
SyncBegin(o) ==
    /\ pc = "idle"
    /\ runs < MaxRuns
    /\ runs' = runs + 1
    /\ pc' = "initialize"
    /\ opts' = o
    /\ gateway_calendar_id' = NoCalendar
    /\ since' = o.since
    /\ synced_ids' = {}
    /\ all_calls' = <<>>
    /\ calls_to_sync' = <<>>
    /\ calls_skipped' = 0
    /\ calls_synced' = 0
    /\ errors' = <<>>
    /\ i' = 1
    /\ event_id' = 0
    /\ results' = <<>>
    /\ batch_start' = 0
    /\ submitted' = <<>>
    /\ created' = {}
    /\ cleared' = {}
    /\ requests' = <<>>
    /\ failed_outright' = {}
    /\ result' = NoResult
    /\ repeat' = (last_clean /\ o = opts)
    /\ ledger_failed' = {}
    /\ checked' = None
    /\ progress_calls' = <<>>
    /\ UNCHANGED <<ledgerVars, remoteVars, sourceVars, last_clean, envVars,
                   storeVars, otherUnits>>

\* initialize() raised and sync() goes on to the prerequisites all the same
Initialize_Continue(ok) ==
    /\ pc = "initialize"
    /\ pc' = "prereq"
    /\ ledger_failed' = IF ok THEN ledger_failed
                        ELSE ledger_failed \cup {"initialize"}
    /\ UNCHANGED <<ledgerVars, remoteVars, sourceVars, localVars, historyVars,
                   result, log, runs, envVars, checked, storeVars, unitVars>>

\* lines 167-179.  ok = FALSE: sync_db.initialize() raises.
Initialize(ok) ==
    /\ pc = "initialize"
    /\ IF ok
       THEN /\ pc' = "prereq"
            /\ UNCHANGED <<result, log, ledger_failed>>
       ELSE /\ Abort(<<Error("Failed to initialize sync database", "")>>)
            /\ ledger_failed' = ledger_failed \cup {"initialize"}
    /\ UNCHANGED <<ledgerVars, remoteVars, sourceVars, localVars, historyVars,
                   runs, envVars, checked, storeVars, unitVars>>

\* check_prerequisites that returns at the first failing check
check_prerequisites_FirstOnly(exists, readable, authenticated) ==
    IF ~exists THEN <<Error("Call history database not found.", "")>>
    ELSE IF ~readable
    THEN <<Error("Cannot read call history. Full Disk Access permission is required.", "")>>
    ELSE IF ~authenticated
    THEN <<Error("Not authenticated with Google Calendar.", "")>>
    ELSE <<>>

\* check_prerequisites, lines 94-114
check_prerequisites(exists, readable, authenticated) ==
    (IF ~exists THEN <<Error("Call history database not found.", "")>>
     ELSE IF ~readable
          THEN <<Error("Cannot read call history. Full Disk Access permission is required.", "")>>
          ELSE <<>>)
    \o (IF ~authenticated
        THEN <<Error("Not authenticated with Google Calendar.", "")>>
        ELSE <<>>)

\* lines 181-191
CheckPrerequisites(exists, readable, authenticated) ==
    /\ pc = "prereq"
    /\ LET prereq_errors == check_prerequisites(exists, readable, authenticated)
       IN  IF prereq_errors # <<>>
           THEN Abort(prereq_errors)
           ELSE /\ pc' = "drift"
                /\ UNCHANGED <<result, log>>
    /\ checked' = Some([exists |-> exists, readable |-> readable,
                        authenticated |-> authenticated])
    /\ UNCHANGED <<ledgerVars, remoteVars, sourceVars, localVars, historyVars,
                   runs, envVars, ledger_failed, storeVars, unitVars>>

\* The drift test that never finds a change
CalendarChanged_Never(stored_calendar_id, calendar_id) == FALSE

\* line 198
CalendarChanged(stored_calendar_id, calendar_id) ==
    stored_calendar_id # NoCalendar /\ stored_calendar_id # calendar_id

\* A drift check whose failure ends the run
AfterDriftCheck_Fatal(ok) == IF ok THEN "window" ELSE "idle"

\* lines 203-206: the except clause logs a warning and falls through, as the
\* end of the try block does
AfterDriftCheck(ok) == "window"

\* lines 193-204.  ok = FALSE: get_calendar_id raised (the calendar could be
\* neither listed nor created); the except clause swallows it.
DriftCheck(ok) ==
    /\ pc = "drift"
    /\ pc' = AfterDriftCheck(ok)
    /\ IF ok
       THEN LET calendar_id ==
                    CalendarIdOf(gateway_calendar_id, remote_calendar,
                                 calendars_created)
                stored_calendar_id == settings.calendar_id
            IN  /\ remote_calendar' =
                        RemoteAfterLookup(gateway_calendar_id, remote_calendar,
                                          calendars_created)
                /\ calendars_created' =
                        CreatedAfterLookup(gateway_calendar_id, remote_calendar,
                                           calendars_created)
                /\ gateway_calendar_id' = calendar_id
                /\ synced_calls' =
                        IF CalendarChanged(stored_calendar_id, calendar_id)
                        THEN clear_all_synced_calls(synced_calls)
                        ELSE synced_calls
                /\ cleared' =
                        IF CalendarChanged(stored_calendar_id, calendar_id)
                        THEN DOMAIN synced_calls
                        ELSE {}
                /\ settings' = set_setting(settings, "calendar_id", calendar_id)
       ELSE /\ gateway_calendar_id = NoCalendar
            /\ UNCHANGED <<synced_calls, settings, remote_calendar,
                           calendars_created, gateway_calendar_id, cleared>>
    /\ UNCHANGED <<events, next_event_id, sourceVars, opts, since, synced_ids,
                   all_calls, calls_to_sync, calls_skipped, calls_synced,
                   errors, i, event_id, results, batch_start, result,
                   submitted, created, requests, failed_outright, log, runs,
                   envVars, faultVars, storeVars, unitVars>>

\* lines 206-210
SelectWindow ==
    /\ pc = "window"
    /\ pc' = "synced_ids"
    /\ since' = IF since = None THEN _get_default_since(settings) ELSE since
    /\ UNCHANGED <<ledgerVars, remoteVars, sourceVars, opts,
                   gateway_calendar_id, synced_ids, all_calls, calls_to_sync,
                   calls_skipped, calls_synced, errors, i, event_id, results,
                   batch_start, result, historyVars, log, runs, envVars,
                   faultVars, storeVars, unitVars>>

\* lines 212-225
GetSyncedIds(ok) ==
    /\ pc = "synced_ids"
    /\ IF ok
       THEN /\ synced_ids' = get_synced_call_ids(synced_calls)
            /\ pc' = "fetch"
            /\ UNCHANGED <<result, log, ledger_failed>>
       ELSE /\ Abort(<<Error("Failed to get synced call IDs", "")>>)
            /\ ledger_failed' = ledger_failed \cup {"get_synced_call_ids"}
            /\ UNCHANGED synced_ids
    /\ UNCHANGED <<ledgerVars, remoteVars, sourceVars, opts,
                   gateway_calendar_id, since, all_calls, calls_to_sync,
                   calls_skipped, calls_synced, errors, i, event_id, results,
                   batch_start, historyVars, runs, envVars, checked,
                   storeVars, unitVars>>

\* lines 227-255
FetchCalls(outcome) ==
    /\ pc = "fetch"
    /\ CASE outcome = "ok" ->
              /\ all_calls' \in get_calls(call_rows, call_db_kind, since,
                                          opts.answered_only)
              /\ pc' = "filter"
              /\ UNCHANGED <<result, log>>
         [] outcome = "PermissionError" ->
              /\ Abort(<<Error("Cannot read call history. Full Disk Access permission is required.", "")>>)
              /\ UNCHANGED all_calls
         [] outcome = "Exception" ->
              /\ Abort(<<Error("Failed to get calls", "")>>)
              /\ UNCHANGED all_calls
    /\ UNCHANGED <<ledgerVars, remoteVars, sourceVars, opts,
                   gateway_calendar_id, since, synced_ids, calls_to_sync,
                   calls_skipped, calls_synced, errors, i, event_id, results,
                   batch_start, historyVars, runs, envVars,
                   faultVars, storeVars, unitVars>>

\* The dry_run flag is never looked at
DryRun_Never(o) == FALSE

\* line 279: if dry_run
DryRun(o) == o.dry_run

\* A skip counter that counts the already-synced candidates only
SkippedCount_LedgerOnly(all, to_sync) ==
    Cardinality({ k \in 1..Len(all) : all[k].unique_id \in synced_ids })

\* line 264: calls_skipped = len(all_calls) - len(calls_to_sync)
SkippedCount(all, to_sync) == Len(all) - Len(to_sync)

\* lines 257-291: filter and deduplicate, then the early exit, the dry run,
\* or the choice of the creation path
FilterAndDispatch ==
    /\ pc = "filter"
    /\ LET to_sync == FilterCalls(all_calls, synced_ids)
           skipped == SkippedCount(all_calls, to_sync)
       IN  /\ calls_to_sync' = to_sync
           /\ calls_skipped' = skipped
           /\ IF to_sync = <<>>
              THEN /\ settings' = set_setting(settings, "initial_sync_done", "true")
                   /\ Finish(SyncResult("returned", TRUE, 0, skipped, <<>>))
              ELSE IF DryRun(opts)
              THEN /\ Finish(SyncResult("returned", TRUE, Len(to_sync),
                                        skipped, <<>>))
                   /\ UNCHANGED settings
              ELSE /\ pc' = IF opts.use_batch /\ Len(to_sync) > 1
                            THEN "batch_begin" ELSE "create"
                   /\ UNCHANGED <<settings, result, log>>
    /\ UNCHANGED <<synced_calls, remoteVars, sourceVars, opts,
                   gateway_calendar_id, since, synced_ids, all_calls,
                   calls_synced, errors, i, event_id, results, batch_start,
                   historyVars, runs, envVars, faultVars, storeVars, unitVars>>

\* ------------------------------------------------------------------------
\* Creation, one request per call (sync_service.py:303-322)
\* ------------------------------------------------------------------------
\* on_progress(completed, total): the callback sync() was given is called
on_progress(calls, completed, total) == Append(calls, <<completed, total>>)

\* The callback of a chunk that reports the end of a full chunk
Completed_NoMin(start, total) == start + BATCH_SIZE

\* google_calendar.py:521: completed = min(batch_start + BATCH_SIZE, total)
Completed(start, total) == Min(start + BATCH_SIZE, total)

\* line 303: the next record, or the end of the loop
AfterRecord(k) == IF k >= Len(calls_to_sync) THEN "complete" ELSE "create"

\* A failure that ends the loop
AfterFailure_Abort(k) == "complete"

\* lines 312-319: the except clauses record the error and fall through to
\* the next record
AfterFailure(k) == AfterRecord(k)

\* line 305: create_event_from_call(call), google_calendar.py:353-381.
\*   "ok"             the event is inserted and its id returned
\*   "lookup_failed"  get_or_create_calendar raises GoogleCalendarError
\*   "insert_failed"  the insert is answered with an HTTP error
\*   "Exception"      any other exception (transport failure)
\* A failure is caught at lines 312-319 and its message appended.
CreateEvent(outcome) ==
    /\ pc = "create"
    /\ i <= Len(calls_to_sync)
    /\ LET call == calls_to_sync[i]
           calendar_id == CalendarIdOf(gateway_calendar_id, remote_calendar,
                                       calendars_created)
           found == RemoteAfterLookup(gateway_calendar_id, remote_calendar,
                                      calendars_created)
           looked_up ==
                /\ gateway_calendar_id' = calendar_id
                /\ remote_calendar' = found
                /\ calendars_created' =
                        CreatedAfterLookup(gateway_calendar_id, remote_calendar,
                                           calendars_created)
           failed(msg) ==
                /\ errors' = Append(errors, Error(msg, call.unique_id))
                /\ i' = i + 1
                /\ pc' = AfterFailure(i)
                /\ progress_calls' = on_progress(progress_calls, i,
                                                 Len(calls_to_sync))
                /\ UNCHANGED <<events, next_event_id, event_id, created>>
       IN  /\ submitted' = Append(submitted, call)
           /\ CASE outcome = "ok" ->
                     /\ calendar_id = found
                     /\ looked_up
                     /\ events' = events \cup
                            {RemoteEvent(next_event_id, _build_event_body(call),
                                         "self")}
                     /\ next_event_id' = next_event_id + 1
                     /\ event_id' = next_event_id
                     /\ created' = created \cup
                            {[id |-> next_event_id, call_id |-> call.unique_id]}
                     /\ pc' = "mark"
                     /\ UNCHANGED <<errors, i, progress_calls>>
                [] outcome = "lookup_failed" ->
                     /\ gateway_calendar_id = NoCalendar
                     /\ failed("Failed to sync call")
                     /\ UNCHANGED <<gateway_calendar_id, remote_calendar,
                                    calendars_created>>
                [] outcome = "insert_failed" ->
                     /\ looked_up
                     /\ failed("Failed to sync call")
                [] outcome = "Exception" ->
                     /\ failed("Unexpected error syncing call")
                     /\ UNCHANGED <<gateway_calendar_id, remote_calendar,
                                    calendars_created>>
    /\ UNCHANGED <<ledgerVars, sourceVars, opts, since, synced_ids, all_calls,
                   calls_to_sync, calls_skipped, calls_synced, results,
                   batch_start, result, cleared, requests, failed_outright,
                   log, runs, envVars, faultVars, storeVars, otherUnits>>

\* lines 306-307, and the callback of lines 321-322
MarkSynced ==
    /\ pc = "mark"
    /\ synced_calls' = mark_call_synced(synced_calls,
                                        calls_to_sync[i].unique_id, event_id)
    /\ calls_synced' = calls_synced + 1
    /\ i' = i + 1
    /\ pc' = AfterRecord(i)
    /\ progress_calls' = on_progress(progress_calls, i, Len(calls_to_sync))
    /\ UNCHANGED <<settings, remoteVars, sourceVars, opts, gateway_calendar_id,
                   since, synced_ids, all_calls, calls_to_sync, calls_skipped,
                   errors, event_id, results, batch_start, result, historyVars,
                   log, runs, envVars, faultVars, storeVars, otherUnits>>

\* ------------------------------------------------------------------------
\* Creation in batches (sync_service.py:293-300,
\* google_calendar.py:451-527)
\* ------------------------------------------------------------------------
BatchResult(call_id, ev, err) ==
    [call_id |-> call_id, event_id |-> ev, error |-> err]

\* line 293 and create_events_batch up to its loop (lines 468-480).
\* ok = FALSE: get_or_create_calendar raises GoogleCalendarError, which
\* nothing catches on the way out of sync().
BatchBegin(ok) ==
    /\ pc = "batch_begin"
    /\ submitted' = submitted \o calls_to_sync
    /\ IF calls_to_sync = <<>>
       THEN /\ ok
            /\ results' = <<>>
            /\ pc' = "batch_mark"
            /\ UNCHANGED <<gateway_calendar_id, remote_calendar,
                           calendars_created, batch_start, result, log>>
       ELSE IF ok
       THEN /\ gateway_calendar_id' =
                    CalendarIdOf(gateway_calendar_id, remote_calendar,
                                 calendars_created)
            /\ remote_calendar' =
                    RemoteAfterLookup(gateway_calendar_id, remote_calendar,
                                      calendars_created)
            /\ calendars_created' =
                    CreatedAfterLookup(gateway_calendar_id, remote_calendar,
                                       calendars_created)
            /\ results' = <<>>
            /\ batch_start' = 0
            /\ pc' = "batch_chunk"
            /\ UNCHANGED <<result, log>>
       ELSE /\ gateway_calendar_id = NoCalendar
            /\ Finish(Raised("get_or_create_calendar"))
            /\ UNCHANGED <<gateway_calendar_id, remote_calendar,
                           calendars_created, results, batch_start>>
    /\ UNCHANGED <<ledgerVars, events, next_event_id, sourceVars, opts, since,
                   synced_ids, all_calls, calls_to_sync, calls_skipped,
                   calls_synced, errors, i, event_id, created, cleared,
                   requests, failed_outright, runs, envVars,
                   faultVars, storeVars, unitVars>>

\* The per-item failure sets tried for a chunk: every subset of a small
\* chunk; of a large one: none, all, the first item, the last item.
FailureSets(idx) ==
    IF Cardinality(idx) <= MaxFullFail
    THEN SUBSET idx
    ELSE {{}, idx} \cup { {k} : k \in { j \in idx : j - 1 \notin idx \/ j + 1 \notin idx } }

\* A slice one call longer
ChunkEnd_OneMore(start, total) == Min(start + BATCH_SIZE + 1, total)

\* line 484: calls[batch_start:batch_start + BATCH_SIZE] ends here
ChunkEnd(start, total) == Min(start + BATCH_SIZE, total)

\* One pass of the loop at lines 483-525: one batched request.
\*   "ok"         the request is answered; the callback of item k gets an
\*                exception if k is in `failed`, else the created event
\*   "HttpError"  batch.execute() raises HttpError before any callback
\*                ran; lines 508-513 mark every call of the chunk as failed
\*   "Exception"  batch.execute() raises something else (transport
\*                failure); nothing catches it
BatchExecuteChunk(outcome, failed) ==
    /\ pc = "batch_chunk"
    /\ LET total == Len(calls_to_sync)
           last == ChunkEnd(batch_start, total)
           idx == (batch_start + 1)..last
           \* the event id the callback of item k receives
           new_id(k) == next_event_id
                        + Cardinality({ j \in idx : j < k /\ j \notin failed })
           \* batch_results is keyed by call id: the last callback wins
           last_of(id) ==
                CHOOSE k \in idx :
                    /\ calls_to_sync[k].unique_id = id
                    /\ \A j \in idx : calls_to_sync[j].unique_id = id => j <= k
           batch_result(k) ==
                LET id == calls_to_sync[k].unique_id
                    w == last_of(id)
                IN  IF outcome = "HttpError"
                    THEN BatchResult(id, None, Some("HttpError"))
                    ELSE IF w \in failed
                         THEN BatchResult(id, None, Some("item error"))
                         ELSE BatchResult(id, Some(new_id(w)), None)
       IN  /\ failed \subseteq idx
           /\ CASE outcome = "ok" ->
                     \* an insert into a calendar that is gone is rejected
                     /\ (gateway_calendar_id # remote_calendar => failed = idx)
                     /\ events' = events \cup
                            { RemoteEvent(new_id(k),
                                          _build_event_body(calls_to_sync[k]),
                                          "self") : k \in idx \ failed }
                     /\ created' = created \cup
                            { [id |-> new_id(k),
                               call_id |-> calls_to_sync[k].unique_id] :
                                k \in idx \ failed }
                     /\ next_event_id' =
                            next_event_id + Cardinality(idx \ failed)
                     /\ UNCHANGED failed_outright
                [] outcome = "HttpError" ->
                     /\ failed = {}
                     /\ failed_outright' = failed_outright \cup idx
                     /\ UNCHANGED <<events, created, next_event_id>>
                [] outcome = "Exception" ->
                     /\ failed = {}
                     /\ failed_outright' = failed_outright \cup idx
                     /\ UNCHANGED <<events, created, next_event_id>>
           /\ requests' = Append(requests, Cardinality(idx))
           /\ IF outcome = "Exception"
              THEN /\ Finish(Raised("batch.execute"))
                   /\ UNCHANGED <<results, batch_start, progress_calls>>
              ELSE /\ results' = results \o
                            [ k \in 1..(last - batch_start) |->
                                batch_result(batch_start + k) ]
                   /\ batch_start' = batch_start + BATCH_SIZE
                   /\ pc' = IF batch_start + BATCH_SIZE < total
                            THEN "batch_chunk" ELSE "batch_mark"
                   /\ progress_calls' =
                        on_progress(progress_calls,
                                    Completed(batch_start, total), total)
                   /\ UNCHANGED <<result, log>>
    /\ UNCHANGED <<ledgerVars, remote_calendar, calendars_created, sourceVars,
                   opts, gateway_calendar_id, since, synced_ids, all_calls,
                   calls_to_sync, calls_skipped, calls_synced, errors, i,
                   event_id, submitted, cleared, runs, envVars,
                   faultVars, storeVars, otherUnits>>

\* One pass of the loop at lines 295-300 of sync_service.py
BatchMark ==
    /\ pc = "batch_mark"
    /\ i <= Len(results)
    /\ LET r == results[i]
       IN  IF r.event_id # None
           THEN /\ synced_calls' =
                        mark_call_synced(synced_calls, r.call_id, r.event_id[1])
                /\ calls_synced' = calls_synced + 1
                /\ UNCHANGED errors
           ELSE /\ errors' = Append(errors,
                                    Error("Failed to sync call", r.call_id))
                /\ UNCHANGED <<synced_calls, calls_synced>>
    /\ i' = i + 1
    /\ pc' = IF i >= Len(results) THEN "complete" ELSE "batch_mark"
    /\ UNCHANGED <<settings, remoteVars, sourceVars, opts, gateway_calendar_id,
                   since, synced_ids, all_calls, calls_to_sync, calls_skipped,
                   event_id, results, batch_start, result, historyVars, log,
                   runs, envVars, faultVars, storeVars, unitVars>>

\* lines 324-340
Complete ==
    /\ pc = "complete"
    /\ settings' = set_setting(settings, "initial_sync_done", "true")
    /\ Finish(SyncResult("returned", errors = <<>>, calls_synced,
                         calls_skipped, errors))
    /\ UNCHANGED <<synced_calls, remoteVars, sourceVars, localVars,
                   historyVars, runs, envVars, faultVars, storeVars, unitVars>>

\* ------------------------------------------------------------------------
\* The environment
\* ------------------------------------------------------------------------
\* The process running sync() is killed.
Kill ==
    /\ pc # "idle"
    /\ env_steps < MaxEnvSteps
    /\ env_steps' = env_steps + 1
    /\ Finish(SyncResult("killed", FALSE, 0, 0, <<>>))
    /\ UNCHANGED <<ledgerVars, remoteVars, sourceVars, localVars, historyVars,
                   runs, faultVars, storeVars, unitVars>>

\* Environment steps are taken while a run is under way or another run can
\* still follow.
Observed == pc # "idle" \/ runs < MaxRuns

\* The remote calendar is deleted, with its events.
DeleteCalendar ==
    /\ Observed
    /\ remote_calendar # NoCalendar
    /\ env_steps < MaxEnvSteps
    /\ env_steps' = env_steps + 1
    /\ remote_calendar' = NoCalendar
    /\ events' = {}
    /\ last_clean' = FALSE
    /\ repeat' = FALSE
    /\ UNCHANGED <<ledgerVars, calendars_created, next_event_id, sourceVars,
                   pc, localVars, result, historyVars, runs,
                   faultVars, storeVars, unitVars>>

\* Another installation of the same account creates the event of a call.
OtherDeviceCreate(call) ==
    /\ pc = "idle"
    /\ Observed
    /\ remote_calendar # NoCalendar
    /\ env_steps < MaxEnvSteps
    /\ env_steps' = env_steps + 1
    /\ events' = events \cup
            {RemoteEvent(next_event_id, _build_event_body(call), "other")}
    /\ next_event_id' = next_event_id + 1
    /\ last_clean' = FALSE
    /\ UNCHANGED <<ledgerVars, remote_calendar, calendars_created, sourceVars,
                   pc, localVars, result, historyVars, repeat, runs,
                   faultVars, storeVars, unitVars>>

\* set_sync_all_history, sync_service.py:132-139 (main --all-history)
set_sync_all_history(enabled) ==
    /\ pc = "idle"
    /\ Observed
    /\ env_steps < MaxEnvSteps
    /\ env_steps' = env_steps + 1
    /\ settings' = set_setting(settings, "sync_all_history",
                                IF enabled THEN "true" ELSE "false")
    /\ last_clean' = FALSE
    /\ UNCHANGED <<synced_calls, remoteVars, sourceVars, pc, localVars, result,
                   historyVars, repeat, runs, faultVars, storeVars, unitVars>>

\* ------------------------------------------------------------------------
\* Specification
\* ------------------------------------------------------------------------
Next ==
    \/ \E o \in SyncOptions : SyncBegin(o)
    \/ \E ok \in BOOLEAN : Initialize(ok)
    \/ \E e, r, a \in BOOLEAN : CheckPrerequisites(e, r, a)
    \/ \E ok \in BOOLEAN : DriftCheck(ok)
    \/ SelectWindow
    \/ \E ok \in BOOLEAN : GetSyncedIds(ok)
    \/ \E outcome \in {"ok", "PermissionError", "Exception"} : FetchCalls(outcome)
    \/ FilterAndDispatch
    \/ \E outcome \in {"ok", "lookup_failed", "insert_failed", "Exception"} :
            CreateEvent(outcome)
    \/ MarkSynced
    \/ \E ok \in BOOLEAN : BatchBegin(ok)
    \/ \E outcome \in {"ok", "HttpError", "Exception"} :
         \E failed \in FailureSets((batch_start + 1)..
                                   ChunkEnd(batch_start, Len(calls_to_sync))) :
            BatchExecuteChunk(outcome, failed)
    \/ BatchMark
    \/ Complete
    \/ Kill
    \/ DeleteCalendar
    \/ \E call \in Range(call_rows) : OtherDeviceCreate(call)
    \/ set_sync_all_history(TRUE)

Spec == Init /\ [][Next]_vars

\* ------------------------------------------------------------------------
\* create_events_batch called on its own (google_calendar.py:451-527), with
\* lists around the chunk size
\* ------------------------------------------------------------------------
BatchLengths ==
    {0, 1, 2, BATCH_SIZE - 1, BATCH_SIZE, BATCH_SIZE + 1, 2 * BATCH_SIZE,
     2 * BATCH_SIZE + 1}

\* Call k of a list: distinct ids, or every id twice in a row
BatchCall(k, distinct) ==
    [unique_id |-> IF distinct THEN k ELSE (k + 1) \div 2,
     timestamp |-> RecentDate + k, duration_seconds |-> 60,
     is_answered |-> TRUE, is_outgoing |-> FALSE]

InitBatch ==
    /\ synced_calls = [ k \in {} |-> 0 ]
    /\ settings = NoSettings
    /\ remote_calendar \in {NoCalendar, 1}
    /\ calendars_created = remote_calendar
    /\ events = {}
    /\ next_event_id = 1
    /\ call_rows = <<>>
    /\ call_db_kind = "Injected"
    /\ pc = "batch_begin"
    /\ opts = NoOptions
    /\ gateway_calendar_id = NoCalendar
    /\ since = None
    /\ synced_ids = {}
    /\ all_calls = <<>>
    /\ \E n \in BatchLengths, distinct \in BOOLEAN :
            calls_to_sync = [ k \in 1..n |-> BatchCall(k, distinct) ]
    /\ calls_skipped = 0
    /\ calls_synced = 0
    /\ errors = <<>>
    /\ i = 1
    /\ event_id = 0
    /\ results = <<>>
    /\ batch_start = 0
    /\ result = NoResult
    /\ submitted = <<>>
    /\ created = {}
    /\ cleared = {}
    /\ requests = <<>>
    /\ failed_outright = {}
    /\ repeat = FALSE
    /\ last_clean = FALSE
    /\ runs = 1
    /\ env_steps = 0
    /\ InitFaults
    /\ InitStore
    /\ InitUnits

NextBatch ==
    \/ \E ok \in BOOLEAN : BatchBegin(ok)
    \/ \E outcome \in {"ok", "HttpError", "Exception"} :
         \E failed \in FailureSets((batch_start + 1)..
                                   ChunkEnd(batch_start, Len(calls_to_sync))) :
            BatchExecuteChunk(outcome, failed)

SpecBatch == InitBatch /\ [][NextBatch]_vars

\* ------------------------------------------------------------------------
\* sync() run after run over a long call history: more unsynced calls than
\* one batched request takes (sync_service.py:290-300 with
\* google_calendar.py:483-525).  No step of the environment is taken: no
\* kill, no deletion of the calendar, no other installation.
\* ------------------------------------------------------------------------
\* The lengths of the call history: one chunk, and one chunk and a call more
HistoryLengths == {2, BATCH_SIZE + 1}

InitLongHistory ==
    /\ InitCommon
    /\ \E n \in HistoryLengths :
            call_rows = [ k \in 1..n |-> BatchCall(k, TRUE) ]
    /\ call_db_kind = "Injected"
    /\ pc = "idle"
    /\ InitUnits

\* main's default: sync(use_batch=True), sync_service.py:146
BatchOptions == { o \in SyncOptions : o.use_batch }

\* The long history is synced in batches; the short one also with --no-batch
LongHistoryOptions ==
    BatchOptions \cup { o \in SyncOptions : Len(call_rows) <= MaxRows }

NextLongHistory ==
    \/ \E o \in LongHistoryOptions : SyncBegin(o)
    \/ \E ok \in BOOLEAN : Initialize(ok)
    \/ \E e, r, a \in BOOLEAN : CheckPrerequisites(e, r, a)
    \/ \E ok \in BOOLEAN : DriftCheck(ok)
    \/ SelectWindow
    \/ \E ok \in BOOLEAN : GetSyncedIds(ok)
    \/ \E outcome \in {"ok", "PermissionError", "Exception"} : FetchCalls(outcome)
    \/ FilterAndDispatch
    \/ \E outcome \in {"ok", "lookup_failed", "insert_failed", "Exception"} :
            CreateEvent(outcome)
    \/ MarkSynced
    \/ \E ok \in BOOLEAN : BatchBegin(ok)
    \/ \E outcome \in {"ok", "HttpError", "Exception"} :
         \E failed \in FailureSets((batch_start + 1)..
                                   ChunkEnd(batch_start, Len(calls_to_sync))) :
            BatchExecuteChunk(outcome, failed)
    \/ BatchMark
    \/ Complete

SpecLongHistory == InitLongHistory /\ [][NextLongHistory]_vars

\* ------------------------------------------------------------------------
\* Two processes in sync() at once (sync_service.py:141-340).  Nothing in
\* the repository keeps the launch agent's process and the window's sync
\* apart: they share the ledger file, the call history and the calendar.
\* A step is what a process does between two accesses to what is shared.
\* The calendar exists already (the first lookup of each process finds it).
\* ------------------------------------------------------------------------
\* The call histories of this specification: one call or two
OverlapTables == { t \in SourceTables : Len(t) \in 1..2 }

InitOverlap ==
    /\ synced_calls = [ k \in {} |-> 0 ]
    /\ settings \in {NoSettings,
                     set_setting(NoSettings, "sync_all_history", "true")}
    /\ remote_calendar = 1
    /\ calendars_created = 1
    /\ events = {}
    /\ next_event_id = 1
    /\ call_rows \in OverlapTables
    /\ call_db_kind = "CallDatabase"
    /\ pc = "idle"
    /\ InitLocals
    /\ result = NoResult
    /\ submitted = <<>>
    /\ created = {}
    /\ cleared = {}
    /\ requests = <<>>
    /\ failed_outright = {}
    /\ repeat = FALSE
    /\ last_clean = FALSE
    /\ runs = 0
    /\ env_steps = 0
    /\ InitFaults
    /\ InitStore
    /\ InitUnits

\* What the steps of the two processes leave alone
overlapFrame == <<sourceVars, remote_calendar, calendars_created, pc,
                  localVars, result, historyVars, log, runs, envVars,
                  faultVars, storeVars, gatewayVars, bodyVars, queryVars,
                  progressVars>>

\* The event id a process hands to mark_call_synced (line 306)
MarkedEventId_Latest(p) == next_event_id - 1

MarkedEventId(p) == proc[p].event_id

\* line 303 and line 324: the next record, or the end of the loop
Run_AfterRecord(p, k) ==
    IF k >= Len(proc[p].calls_to_sync) THEN "complete" ELSE "create"

\* A process enters sync(use_batch); lines 141-203 touch no row of the
\* ledger's synced_calls and no event.
Run_Begin(p, use_batch) ==
    /\ proc[p].pc = "idle"
    /\ proc[p].runs < MaxRunsEach
    /\ proc' = [proc EXCEPT ![p] =
                    [NoRun EXCEPT !.pc = "window",
                                  !.runs = proc[p].runs + 1,
                                  !.use_batch = use_batch]]
    /\ UNCHANGED <<ledgerVars, events, next_event_id, overlapFrame>>

\* lines 206-209: since = self._get_default_since()
Run_SelectWindow(p) ==
    /\ proc[p].pc = "window"
    /\ proc' = [proc EXCEPT ![p].pc = "synced_ids",
                            ![p].since = _get_default_since(settings)]
    /\ UNCHANGED <<ledgerVars, events, next_event_id, overlapFrame>>

\* lines 212-214: synced_ids = self.sync_db.get_synced_call_ids()
Run_GetSyncedIds(p) ==
    /\ proc[p].pc = "synced_ids"
    /\ proc' = [proc EXCEPT ![p].pc = "fetch",
                            ![p].synced_ids = get_synced_call_ids(synced_calls),
                            ![p].ledger_at_read = DOMAIN synced_calls]
    /\ UNCHANGED <<ledgerVars, events, next_event_id, overlapFrame>>

\* lines 227-288: get_calls, the filter loop, and the early exit
Run_FetchAndFilter(p) ==
    /\ proc[p].pc = "fetch"
    /\ \E all \in get_calls(call_rows, call_db_kind, proc[p].since, TRUE) :
        LET to_sync == FilterCalls(all, proc[p].synced_ids)
        IN  /\ proc' = [proc EXCEPT
                    ![p].calls_to_sync = to_sync,
                    ![p].pc = IF to_sync = <<>> THEN "idle"
                              ELSE IF proc[p].use_batch /\ Len(to_sync) > 1
                              THEN "batch" ELSE "create"]
            /\ settings' = IF to_sync = <<>>
                           THEN set_setting(settings, "initial_sync_done", "true")
                           ELSE settings
    /\ UNCHANGED <<synced_calls, events, next_event_id, overlapFrame>>

\* line 305: create_event_from_call(call); ok = FALSE: it raises, lines
\* 312-319 record the error and go on to the next record
Run_CreateEvent(p, ok) ==
    /\ proc[p].pc = "create"
    /\ LET call == proc[p].calls_to_sync[proc[p].i]
       IN  IF ok
           THEN /\ events' = events \cup
                        {RemoteEvent(next_event_id, _build_event_body(call),
                                     "self")}
                /\ next_event_id' = next_event_id + 1
                /\ proc' = [proc EXCEPT
                        ![p].event_id = next_event_id,
                        ![p].created = @ \cup {next_event_id},
                        ![p].pc = "mark"]
           ELSE /\ proc' = [proc EXCEPT
                        ![p].errors = Append(@, Error("Failed to sync call",
                                                      call.unique_id)),
                        ![p].i = @ + 1,
                        ![p].pc = Run_AfterRecord(p, proc[p].i)]
                /\ UNCHANGED <<events, next_event_id>>
    /\ UNCHANGED <<ledgerVars, overlapFrame>>

\* line 306: self.sync_db.mark_call_synced(call.unique_id, event_id)
Run_MarkSynced(p) ==
    /\ proc[p].pc = "mark"
    /\ LET call == proc[p].calls_to_sync[proc[p].i]
       IN  synced_calls' = mark_call_synced(synced_calls, call.unique_id,
                                            MarkedEventId(p))
    /\ proc' = [proc EXCEPT ![p].i = @ + 1,
                            ![p].pc = Run_AfterRecord(p, proc[p].i)]
    /\ UNCHANGED <<settings, events, next_event_id, overlapFrame>>

\* line 293: create_events_batch(calls_to_sync), one batched request (the
\* histories here fit one chunk).
\*   "ok"         item k gets an exception if k is in `failed`, else its event
\*   "HttpError"  batch.execute() raises HttpError: every call failed
\*   "Exception"  batch.execute() raises something else, which leaves sync()
Run_CreateEventsBatch(p, outcome, failed) ==
    /\ proc[p].pc = "batch"
    /\ LET calls == proc[p].calls_to_sync
           idx == 1..Len(calls)
           done == IF outcome = "ok" THEN idx \ failed ELSE {}
           new_id(k) == next_event_id
                        + Cardinality({ j \in done : j < k })
       IN  /\ failed \subseteq idx
           /\ outcome # "ok" => failed = {}
           /\ events' = events \cup
                    { RemoteEvent(new_id(k), _build_event_body(calls[k]),
                                  "self") : k \in done }
           /\ next_event_id' = next_event_id + Cardinality(done)
           /\ proc' = [proc EXCEPT
                    ![p].created = @ \cup { new_id(k) : k \in done },
                    ![p].results =
                        IF outcome = "Exception" THEN <<>>
                        ELSE [ k \in idx |->
                                IF k \in done
                                THEN BatchResult(calls[k].unique_id,
                                                 Some(new_id(k)), None)
                                ELSE BatchResult(calls[k].unique_id, None,
                                                 Some("error")) ],
                    ![p].pc = IF outcome = "Exception" THEN "idle"
                              ELSE "batch_mark"]
    /\ UNCHANGED <<ledgerVars, overlapFrame>>

\* One pass of the loop at lines 295-300
Run_BatchMark(p) ==
    /\ proc[p].pc = "batch_mark"
    /\ LET r == proc[p].results[proc[p].i]
       IN  IF r.event_id # None
           THEN /\ synced_calls' =
                        mark_call_synced(synced_calls, r.call_id, r.event_id[1])
                /\ proc' = [proc EXCEPT
                        ![p].i = @ + 1,
                        ![p].pc = IF proc[p].i >= Len(proc[p].results)
                                  THEN "complete" ELSE "batch_mark"]
           ELSE /\ proc' = [proc EXCEPT
                        ![p].errors = Append(@, Error("Failed to sync call",
                                                      r.call_id)),
                        ![p].i = @ + 1,
                        ![p].pc = IF proc[p].i >= Len(proc[p].results)
                                  THEN "complete" ELSE "batch_mark"]
                /\ UNCHANGED synced_calls
    /\ UNCHANGED <<settings, events, next_event_id, overlapFrame>>

\* lines 324-340
Run_Complete(p) ==
    /\ proc[p].pc = "complete"
    /\ settings' = set_setting(settings, "initial_sync_done", "true")
    /\ proc' = [proc EXCEPT ![p].pc = "idle"]
    /\ UNCHANGED <<synced_calls, events, next_event_id, overlapFrame>>

NextOverlap ==
    \E p \in Procs :
        \/ \E use_batch \in BOOLEAN : Run_Begin(p, use_batch)
        \/ Run_SelectWindow(p)
        \/ Run_GetSyncedIds(p)
        \/ Run_FetchAndFilter(p)
        \/ \E ok \in BOOLEAN : Run_CreateEvent(p, ok)
        \/ Run_MarkSynced(p)
        \/ \E outcome \in {"ok", "HttpError", "Exception"} :
             \E failed \in SUBSET (1..Len(proc[p].calls_to_sync)) :
                Run_CreateEventsBatch(p, outcome, failed)
        \/ Run_BatchMark(p)
        \/ Run_Complete(p)

SpecOverlap == InitOverlap /\ [][NextOverlap]_vars

\* ------------------------------------------------------------------------
\* sync() over a ledger whose operations can raise (sqlite3.Error: disk
\* full, file locked by another process, file removed)
\* ------------------------------------------------------------------------
\* lines 193-204: the calendar id was obtained and then `which` raises;
\* the except clause of line 203 logs a warning and the run goes on.
DriftCheckRaises(which) ==
    /\ pc = "drift"
    /\ pc' = AfterDriftCheck(FALSE)
    /\ LET calendar_id ==
                CalendarIdOf(gateway_calendar_id, remote_calendar,
                             calendars_created)
           changed == CalendarChanged(settings.calendar_id, calendar_id)
       IN  /\ remote_calendar' =
                    RemoteAfterLookup(gateway_calendar_id, remote_calendar,
                                      calendars_created)
           /\ calendars_created' =
                    CreatedAfterLookup(gateway_calendar_id, remote_calendar,
                                       calendars_created)
           /\ gateway_calendar_id' = calendar_id
           /\ CASE which = "get_setting" ->
                     UNCHANGED <<synced_calls, cleared>>
                [] which = "clear_all_synced_calls" ->
                     /\ changed
                     /\ UNCHANGED <<synced_calls, cleared>>
                [] which = "set_setting" ->
                     /\ synced_calls' =
                            IF changed THEN clear_all_synced_calls(synced_calls)
                            ELSE synced_calls
                     /\ cleared' = IF changed THEN DOMAIN synced_calls ELSE {}
    /\ ledger_failed' = ledger_failed \cup {which}
    /\ UNCHANGED <<settings, events, next_event_id, sourceVars, opts, since,
                   synced_ids, all_calls, calls_to_sync, calls_skipped,
                   calls_synced, errors, i, event_id, results, batch_start,
                   result, submitted, created, requests, failed_outright, log,
                   runs, envVars, checked, storeVars, unitVars>>

\* lines 207-208: get_setting raises in _get_default_since; nothing catches
\* it on the way out of sync().
SelectWindowRaises ==
    /\ pc = "window"
    /\ since = None
    /\ Finish(Raised("get_setting"))
    /\ ledger_failed' = ledger_failed \cup {"get_setting"}
    /\ UNCHANGED <<ledgerVars, remoteVars, sourceVars, localVars, historyVars,
                   runs, envVars, checked, storeVars, unitVars>>

\* line 269: set_setting raises at the early exit; nothing catches it.
EarlyExitRaises ==
    /\ pc = "filter"
    /\ FilterCalls(all_calls, synced_ids) = <<>>
    /\ calls_skipped' = Len(all_calls)
    /\ Finish(Raised("set_setting"))
    /\ ledger_failed' = ledger_failed \cup {"set_setting"}
    /\ UNCHANGED <<ledgerVars, remoteVars, sourceVars, opts,
                   gateway_calendar_id, since, synced_ids, all_calls,
                   calls_to_sync, calls_synced, errors, i, event_id, results,
                   batch_start, historyVars, runs, envVars, checked,
                   storeVars, unitVars>>

\* line 306: mark_call_synced raises after the event was created; the
\* except clause of line 316 records the error and the loop goes on.
MarkSyncedRaises ==
    /\ pc = "mark"
    /\ errors' = Append(errors, Error("Unexpected error syncing call",
                                      calls_to_sync[i].unique_id))
    /\ i' = i + 1
    /\ pc' = AfterFailure(i)
    /\ ledger_failed' = ledger_failed \cup {"mark_call_synced"}
    /\ progress_calls' = on_progress(progress_calls, i, Len(calls_to_sync))
    /\ UNCHANGED <<ledgerVars, remoteVars, sourceVars, opts,
                   gateway_calendar_id, since, synced_ids, all_calls,
                   calls_to_sync, calls_skipped, calls_synced, event_id,
                   results, batch_start, result, historyVars, log, runs,
                   envVars, checked, storeVars, otherUnits>>

\* line 297: mark_call_synced raises in the loop over the batch results;
\* nothing catches it.
BatchMarkRaises ==
    /\ pc = "batch_mark"
    /\ i <= Len(results)
    /\ results[i].event_id # None
    /\ Finish(Raised("mark_call_synced"))
    /\ ledger_failed' = ledger_failed \cup {"mark_call_synced"}
    /\ UNCHANGED <<ledgerVars, remoteVars, sourceVars, localVars, historyVars,
                   runs, envVars, checked, storeVars, unitVars>>

\* line 325: set_setting raises at completion; nothing catches it.
CompleteRaises ==
    /\ pc = "complete"
    /\ Finish(Raised("set_setting"))
    /\ ledger_failed' = ledger_failed \cup {"set_setting"}
    /\ UNCHANGED <<ledgerVars, remoteVars, sourceVars, localVars, historyVars,
                   runs, envVars, checked, storeVars, unitVars>>

NextLedgerFaults ==
    \/ \E o \in SyncOptions : SyncBegin(o)
    \/ \E ok \in BOOLEAN : Initialize(ok)
    \/ CheckPrerequisites(TRUE, TRUE, TRUE)
    \/ DriftCheck(TRUE)
    \/ \E which \in {"get_setting", "clear_all_synced_calls", "set_setting"} :
            DriftCheckRaises(which)
    \/ SelectWindow
    \/ SelectWindowRaises
    \/ \E ok \in BOOLEAN : GetSyncedIds(ok)
    \/ FetchCalls("ok")
    \/ FilterAndDispatch
    \/ EarlyExitRaises
    \/ \E outcome \in {"ok", "insert_failed"} : CreateEvent(outcome)
    \/ MarkSynced
    \/ MarkSyncedRaises
    \/ BatchBegin(TRUE)
    \/ \E failed \in FailureSets((batch_start + 1)..
                                  ChunkEnd(batch_start, Len(calls_to_sync))) :
            BatchExecuteChunk("ok", failed)
    \/ BatchMark
    \/ BatchMarkRaises
    \/ Complete
    \/ CompleteRaises
    \/ DeleteCalendar

SpecLedgerFaults == Init /\ [][NextLedgerFaults]_vars

\* ------------------------------------------------------------------------
\* sync() invoked again and again with no explicit since (the launch agent
\* starts `--sync` every StartInterval seconds, launchagent.py:81-86).  In
\* the first MaxRuns runs the process may be killed and the call source,
\* the ledger and the gateway may fail; from then on they work.
\* ------------------------------------------------------------------------
\* sync() as the launch agent's process calls it: since = None, a real run
ResumeOptions == { o \in SyncOptions : o.since = None /\ ~o.dry_run }

ResumeTables == { t \in SourceTables : Len(t) <= 2 }

InitResume ==
    /\ InitCommon
    /\ call_rows \in ResumeTables
    /\ call_db_kind \in {"CallDatabase", "Injected"}
    /\ pc = "idle"
    /\ InitUnits

\* One more invocation after the first MaxRuns; `runs` stops counting there
SyncAgain(o) ==
    /\ pc = "idle"
    /\ runs >= MaxRuns
    /\ runs' = MaxRuns + 1
    /\ pc' = "initialize"
    /\ opts' = o
    /\ gateway_calendar_id' = NoCalendar
    /\ since' = o.since
    /\ synced_ids' = {}
    /\ all_calls' = <<>>
    /\ calls_to_sync' = <<>>
    /\ calls_skipped' = 0
    /\ calls_synced' = 0
    /\ errors' = <<>>
    /\ i' = 1
    /\ event_id' = 0
    /\ results' = <<>>
    /\ batch_start' = 0
    /\ submitted' = <<>>
    /\ created' = {}
    /\ cleared' = {}
    /\ requests' = <<>>
    /\ failed_outright' = {}
    /\ result' = NoResult
    /\ repeat' = (last_clean /\ o = opts)
    /\ ledger_failed' = {}
    /\ checked' = None
    /\ progress_calls' = <<>>
    /\ UNCHANGED <<ledgerVars, remoteVars, sourceVars, last_clean, envVars,
                   storeVars, otherUnits>>

\* A step of a run whose collaborators all work
WorkingStep ==
    \/ Initialize(TRUE)
    \/ CheckPrerequisites(TRUE, TRUE, TRUE)
    \/ DriftCheck(TRUE)
    \/ SelectWindow
    \/ GetSyncedIds(TRUE)
    \/ FetchCalls("ok")
    \/ FilterAndDispatch
    \/ CreateEvent("ok")
    \/ MarkSynced
    \/ BatchBegin(TRUE)
    \/ BatchExecuteChunk("ok", {})
    \/ BatchMark
    \/ Complete

\* Failures and kills come in the first MaxRuns runs only
MayFail == runs <= MaxRuns

\* A step of a run in which something fails, or the kill of its process
FailingStep ==
    \/ MayFail /\ Initialize(FALSE)
    \/ \E e, r, a \in BOOLEAN :
            MayFail /\ ~(e /\ r /\ a) /\ CheckPrerequisites(e, r, a)
    \/ MayFail /\ DriftCheck(FALSE)
    \/ \E which \in {"get_setting", "clear_all_synced_calls", "set_setting"} :
            MayFail /\ DriftCheckRaises(which)
    \/ MayFail /\ GetSyncedIds(FALSE)
    \/ \E outcome \in {"PermissionError", "Exception"} :
            MayFail /\ FetchCalls(outcome)
    \/ \E outcome \in {"lookup_failed", "insert_failed", "Exception"} :
            MayFail /\ CreateEvent(outcome)
    \/ MayFail /\ BatchBegin(FALSE)
    \/ \E outcome \in {"ok", "HttpError", "Exception"} :
         \E failed \in FailureSets((batch_start + 1)..
                                   ChunkEnd(batch_start, Len(calls_to_sync))) :
            /\ MayFail
            /\ ~(outcome = "ok" /\ failed = {})
            /\ BatchExecuteChunk(outcome, failed)
    \/ MayFail /\ MarkSyncedRaises
    \/ MayFail /\ BatchMarkRaises
    \/ MayFail /\ CompleteRaises
    \/ MayFail /\ EarlyExitRaises
    \/ MayFail /\ SelectWindowRaises
    \/ MayFail /\ Kill

NextResume ==
    \/ \E o \in ResumeOptions : SyncBegin(o)
    \/ \E o \in ResumeOptions : SyncAgain(o)
    \/ WorkingStep
    \/ FailingStep

\* The launch agent keeps starting the process, and a started process runs
\* on until sync() ends or it is killed.
SpecResume == InitResume /\ [][NextResume]_vars /\ WF_vars(NextResume)

\* ------------------------------------------------------------------------
\* The ledger file under the operations of SyncDatabase, called by two
\* processes (sync_database.py).  Every method is one connection and one
\* committed statement, which SQLite runs one at a time.
\* ------------------------------------------------------------------------
Clients == {1, 2}
EventIds == {"e1", "e2"}
SettingKeys == {"initial_sync_done", "sync_all_history"}
SettingValues == {"true", "false"}

SyncedCall(id, ev, at) ==
    [call_unique_id |-> id, google_event_id |-> ev, synced_at |-> at]

Setting(key, value) == [key |-> key, value |-> value]

\* CREATE TABLE without IF NOT EXISTS: an error when the table exists
CreateTable_Plain(exists, t) ==
    [rows |-> IF exists THEN t ELSE {}, error |-> exists]

\* lines 43-57: CREATE TABLE IF NOT EXISTS
CreateTableIfNotExists(exists, t) ==
    [rows |-> IF exists THEN t ELSE {}, error |-> FALSE]

\* INSERT into a table without primary key
Insert_NoPrimaryKey(t, row) == t \cup {row}

\* INSERT OR IGNORE: a row whose key exists is dropped
InsertOrIgnore(t, row) ==
    IF \E r \in t : r.call_unique_id = row.call_unique_id THEN t
    ELSE t \cup {row}

\* lines 43-49 and 101-105: INSERT OR REPLACE under PRIMARY KEY
\* call_unique_id removes the row holding the key, then inserts
InsertOrReplace(t, row) ==
    { r \in t : r.call_unique_id # row.call_unique_id } \cup {row}

\* INSERT into a settings table without primary key
InsertSetting_NoPrimaryKey(t, row) == t \cup {row}

\* lines 51-56 and 189-192: the same for settings, PRIMARY KEY key
InsertOrReplaceSetting(t, row) == { r \in t : r.key # row.key } \cup {row}

\* SELECT call_unique_id FROM synced_calls (line 90)
SelectIds(t) == { r.call_unique_id : r \in t }

\* SELECT COUNT(*) FROM synced_calls (line 161)
SelectCount(t) == Cardinality(t)

\* SELECT * FROM synced_calls WHERE call_unique_id = ? (lines 122-134):
\* fetchone() takes a row of the result, None when it is empty
SelectSyncedCall(t, id) ==
    IF \E r \in t : r.call_unique_id = id
    THEN { Some(r) : r \in { x \in t : x.call_unique_id = id } }
    ELSE { None }

\* SELECT value FROM settings WHERE key = ? (lines 174-180)
SelectSetting(t, key) ==
    IF \E r \in t : r.key = key
    THEN { Some(r.value) : r \in { x \in t : x.key = key } }
    ELSE { None }

\* DELETE FROM synced_calls that removes every row
DeleteSyncedCall_AllRows(t, id) ==
    [rows |-> {}, rowcount |-> Cardinality(t)]

\* DELETE FROM synced_calls WHERE call_unique_id = ? (lines 147-152):
\* the rows left and cursor.rowcount
DeleteSyncedCall(t, id) ==
    [rows |-> { r \in t : r.call_unique_id # id },
     rowcount |-> Cardinality({ r \in t : r.call_unique_id = id })]

\* DELETE FROM synced_calls (lines 217-219)
DeleteAllSyncedCalls(t) == [rows |-> {}, rowcount |-> Cardinality(t)]

\* DELETE FROM settings WHERE key = ? (lines 206-208)
DeleteSetting(t, key) ==
    [rows |-> { r \in t : r.key # key },
     rowcount |-> Cardinality({ r \in t : r.key = key })]

\* Optional[str] default of get_setting
Defaults == {None, Some("false")}

\* line 180: row[0] if row else default
GetSettingAnswer(found, default) == IF found # None THEN found ELSE default

\* remove_synced_call on the ledger as a map
remove_synced_call(table, id) ==
    [ k \in (DOMAIN table) \ {id} |-> table[k] ]

Operation(p, op, key, arg, answer, replaced, error) ==
    [client |-> p, op |-> op, key |-> key, arg |-> arg, answer |-> answer,
     replaced |-> replaced, error |-> error]

\* A method called before initialize() ever ran: sqlite3 creates an empty
\* file and the statement raises OperationalError (no such table).
NoSuchTable(p, op, key) ==
    /\ ~tables_exist
    /\ last_op' = Operation(p, op, key, None, None, None, TRUE)
    /\ UNCHANGED <<tables_exist, synced_rows, setting_rows, ledgerVars>>

Tick ==
    /\ pc = "idle"
    /\ clock < MaxLedgerOps
    /\ clock' = clock + 1
    /\ UNCHANGED <<remoteVars, sourceVars, pc, localVars, result, historyVars,
                   log, runs, envVars, faultVars, unitVars>>

\* lines 38-65
Store_initialize(p) ==
    /\ Tick
    /\ LET a == CreateTableIfNotExists(tables_exist, synced_rows)
           b == CreateTableIfNotExists(tables_exist, setting_rows)
       IN  /\ synced_rows' = a.rows
           /\ setting_rows' = b.rows
           /\ tables_exist' = (tables_exist \/ ~a.error)
           /\ last_op' = Operation(p, "initialize", "", None, None, None,
                                   a.error \/ b.error)
    /\ UNCHANGED ledgerVars

\* lines 67-81
Store_is_call_synced(p, id) ==
    /\ Tick
    /\ \/ NoSuchTable(p, "is_call_synced", id)
       \/ /\ tables_exist
          /\ \E found \in SelectSyncedCall(synced_rows, id) :
                last_op' = Operation(p, "is_call_synced", id, None,
                                     Some(found # None), None, FALSE)
          /\ UNCHANGED <<tables_exist, synced_rows, setting_rows, ledgerVars>>

\* lines 83-91
Store_get_synced_call_ids(p) ==
    /\ Tick
    /\ \/ NoSuchTable(p, "get_synced_call_ids", "")
       \/ /\ tables_exist
          /\ last_op' = Operation(p, "get_synced_call_ids", "", None,
                                  Some(SelectIds(synced_rows)), None, FALSE)
          /\ UNCHANGED <<tables_exist, synced_rows, setting_rows, ledgerVars>>

\* lines 93-109
Store_mark_call_synced(p, id, ev) ==
    /\ Tick
    /\ \/ NoSuchTable(p, "mark_call_synced", id)
       \/ /\ tables_exist
          /\ synced_rows' =
                InsertOrReplace(synced_rows, SyncedCall(id, ev, clock'))
          /\ synced_calls' = mark_call_synced(synced_calls, id, ev)
          /\ \E old \in SelectSyncedCall(synced_rows, id) :
                last_op' = Operation(p, "mark_call_synced", id, Some(ev),
                                     None, old, FALSE)
          /\ UNCHANGED <<tables_exist, setting_rows, settings>>

\* lines 111-135
Store_get_synced_call(p, id) ==
    /\ Tick
    /\ \/ NoSuchTable(p, "get_synced_call", id)
       \/ /\ tables_exist
          /\ \E found \in SelectSyncedCall(synced_rows, id) :
                last_op' = Operation(p, "get_synced_call", id, None,
                                     Some(found), None, FALSE)
          /\ UNCHANGED <<tables_exist, synced_rows, setting_rows, ledgerVars>>

\* lines 137-152
Store_remove_synced_call(p, id) ==
    /\ Tick
    /\ \/ NoSuchTable(p, "remove_synced_call", id)
       \/ /\ tables_exist
          /\ LET deleted == DeleteSyncedCall(synced_rows, id)
             IN  /\ synced_rows' = deleted.rows
                 /\ last_op' = Operation(p, "remove_synced_call", id, None,
                                         Some(deleted.rowcount > 0), None,
                                         FALSE)
          /\ synced_calls' = remove_synced_call(synced_calls, id)
          /\ UNCHANGED <<tables_exist, setting_rows, settings>>

\* lines 154-162
Store_get_synced_call_count(p) ==
    /\ Tick
    /\ \/ NoSuchTable(p, "get_synced_call_count", "")
       \/ /\ tables_exist
          /\ last_op' = Operation(p, "get_synced_call_count", "", None,
                                  Some(SelectCount(synced_rows)), None, FALSE)
          /\ UNCHANGED <<tables_exist, synced_rows, setting_rows, ledgerVars>>

\* lines 164-180
Store_get_setting(p, key, default) ==
    /\ Tick
    /\ \/ NoSuchTable(p, "get_setting", key)
       \/ /\ tables_exist
          /\ \E found \in SelectSetting(setting_rows, key) :
                last_op' = Operation(p, "get_setting", key, Some(default),
                                     Some(GetSettingAnswer(found, default)),
                                     None, FALSE)
          /\ UNCHANGED <<tables_exist, synced_rows, setting_rows, ledgerVars>>

\* lines 182-194
Store_set_setting(p, key, value) ==
    /\ Tick
    /\ \/ NoSuchTable(p, "set_setting", key)
       \/ /\ tables_exist
          /\ setting_rows' =
                InsertOrReplaceSetting(setting_rows, Setting(key, value))
          /\ settings' = set_setting(settings, key, value)
          /\ last_op' = Operation(p, "set_setting", key, Some(value), None,
                                  None, FALSE)
          /\ UNCHANGED <<tables_exist, synced_rows, synced_calls>>

\* lines 196-208
Store_delete_setting(p, key) ==
    /\ Tick
    /\ \/ NoSuchTable(p, "delete_setting", key)
       \/ /\ tables_exist
          /\ LET deleted == DeleteSetting(setting_rows, key)
             IN  /\ setting_rows' = deleted.rows
                 /\ last_op' = Operation(p, "delete_setting", key, None,
                                         Some(deleted.rowcount > 0), None,
                                         FALSE)
          /\ settings' = set_setting(settings, key, "None")
          /\ UNCHANGED <<tables_exist, synced_rows, synced_calls>>

\* lines 210-219
Store_clear_all_synced_calls(p) ==
    /\ Tick
    /\ \/ NoSuchTable(p, "clear_all_synced_calls", "")
       \/ /\ tables_exist
          /\ LET deleted == DeleteAllSyncedCalls(synced_rows)
             IN  /\ synced_rows' = deleted.rows
                 /\ last_op' = Operation(p, "clear_all_synced_calls", "",
                                         None, Some(deleted.rowcount), None,
                                         FALSE)
          /\ synced_calls' = clear_all_synced_calls(synced_calls)
          /\ UNCHANGED <<tables_exist, setting_rows, settings>>

\* No sync() runs
NoPipeline ==
    /\ InitCommon
    /\ call_rows = <<>>
    /\ call_db_kind = "CallDatabase"
    /\ pc = "idle"

InitStoreOps ==
    /\ NoPipeline
    /\ InitUnits

NextStoreOps ==
    \E p \in Clients :
        \/ Store_initialize(p)
        \/ \E id \in CallIds : Store_is_call_synced(p, id)
        \/ Store_get_synced_call_ids(p)
        \/ \E id \in CallIds, ev \in EventIds :
                Store_mark_call_synced(p, id, ev)
        \/ \E id \in CallIds : Store_get_synced_call(p, id)
        \/ \E id \in CallIds : Store_remove_synced_call(p, id)
        \/ Store_get_synced_call_count(p)
        \/ \E key \in SettingKeys, default \in Defaults :
                Store_get_setting(p, key, default)
        \/ \E key \in SettingKeys, value \in SettingValues :
                Store_set_setting(p, key, value)
        \/ \E key \in SettingKeys : Store_delete_setting(p, key)
        \/ Store_clear_all_synced_calls(p)

SpecStoreOps == InitStoreOps /\ [][NextStoreOps]_vars

\* ------------------------------------------------------------------------
\* The calendar gateway by itself (google_calendar.py), on an account that
\* holds calendars of its own: the calendar the gateway targets
\* (SpecCalendarOps) and clear_calendar (SpecClearOps).
\* ------------------------------------------------------------------------
CalendarNames == {DEFAULT_CALENDAR_NAME, "Work"}
Descriptions == {"", CALENDAR_DESCRIPTION_MARKER, "Team calls"}
EventCounts == {0, 1, 2, 50, 51, 101}

Calendar(id, summary, description) ==
    [id |-> id, summary |-> summary, description |-> description]

\* calendarList of an account: up to MaxCalendars calendars, ids 1, 2, ...
CalendarLists ==
    UNION { { [ k \in 1..n |-> Calendar(k, c[k].summary, c[k].description) ] :
                c \in [1..n -> [summary : CalendarNames,
                                description : Descriptions]] } :
            n \in 0..MaxCalendars }

\* line 302: CALENDAR_DESCRIPTION_MARKER in description.  The descriptions
\* of the model hold the marker only as a whole.
Contains(description, marker) == description = marker

\* the loops of lines 298 and 325: the first calendar of that name, 0 if none
FirstNamed(list, name) ==
    IF \E k \in 1..Len(list) : list[k].summary = name
    THEN CHOOSE k \in 1..Len(list) :
            /\ list[k].summary = name
            /\ \A j \in 1..(k - 1) : list[j].summary # name
    ELSE 0

\* lines 283-308: (exists, is_ours)
check_calendar_name(list, name) ==
    LET k == FirstNamed(list, name)
    IN  IF k = 0 THEN <<FALSE, FALSE>>
        ELSE <<TRUE, Contains(list[k].description, CALENDAR_DESCRIPTION_MARKER)>>

\* lines 310-347: the id returned, the calendar list afterwards, and whether
\* GoogleCalendarError was raised
get_or_create_calendar(cache, list, name, outcome) ==
    LET k == FirstNamed(list, name)
    IN  IF cache # NoCalendar
        THEN [id |-> cache, list |-> list, error |-> FALSE]
        ELSE IF outcome = "list HttpError"
        THEN [id |-> NoCalendar, list |-> list, error |-> TRUE]
        ELSE IF k # 0
        THEN [id |-> list[k].id, list |-> list, error |-> FALSE]
        ELSE IF outcome = "insert HttpError"
        THEN [id |-> NoCalendar, list |-> list, error |-> TRUE]
        ELSE [id |-> Len(list) + 1,
              list |-> Append(list, Calendar(Len(list) + 1, name,
                                             CALENDAR_DESCRIPTION_MARKER)),
              error |-> FALSE]

GatewayOutcomes == {"ok", "list HttpError", "insert HttpError"}

GatewayOp(op, answer, error) == [op |-> op, answer |-> answer, error |-> error]

GatewayIdle ==
    /\ pc = "idle"
    /\ clear_pc = "idle"
    /\ gateway_ops < MaxGatewayOps
    /\ gateway_ops' = gateway_ops + 1
    /\ UNCHANGED <<pipelineVars, storeVars, bodyVars, queryVars>>

\* lines 310-347
Gateway_get_or_create_calendar(outcome) ==
    /\ GatewayIdle
    /\ LET r == get_or_create_calendar(_calendar_id, calendar_list,
                                       _calendar_name, outcome)
       IN  /\ calendar_list' = r.list
           /\ _calendar_id' = r.id
           /\ gateway_op' = GatewayOp("get_or_create_calendar",
                                      IF r.error THEN None ELSE Some(r.id),
                                      r.error)
    /\ UNCHANGED <<_calendar_name, clearVars>>

\* lines 283-308
Gateway_check_calendar_name(name, ok) ==
    /\ GatewayIdle
    /\ gateway_op' = GatewayOp("check_calendar_name",
                               IF ok
                               THEN Some(check_calendar_name(calendar_list, name))
                               ELSE None,
                               ~ok)
    /\ UNCHANGED <<calendar_list, _calendar_name, _calendar_id, clearVars>>

\* lines 122-138
set_calendar_name(name) ==
    /\ _calendar_name' = name
    /\ _calendar_id' = NoCalendar

\* ui/preferences.py lines 590-633: the Save button of the calendar name
_save_calendar_name(new_name, ok, confirm) ==
    /\ GatewayIdle
    /\ LET checked_ == check_calendar_name(calendar_list, new_name)
       IN  IF new_name = _calendar_name
           THEN /\ gateway_op' = GatewayOp("_save_calendar_name",
                                           Some("unchanged"), FALSE)
                /\ UNCHANGED <<_calendar_name, _calendar_id>>
           ELSE IF ~ok
           THEN /\ gateway_op' = GatewayOp("_save_calendar_name", None, TRUE)
                /\ UNCHANGED <<_calendar_name, _calendar_id>>
           ELSE IF checked_[1] /\ ~checked_[2]
           THEN /\ gateway_op' = GatewayOp("_save_calendar_name",
                                           Some("Name Already Used"), FALSE)
                /\ UNCHANGED <<_calendar_name, _calendar_id>>
           ELSE IF ~confirm
           THEN /\ gateway_op' = GatewayOp("_save_calendar_name",
                                           Some("cancelled"), FALSE)
                /\ UNCHANGED <<_calendar_name, _calendar_id>>
           ELSE /\ gateway_op' = GatewayOp("_save_calendar_name",
                                           Some("changed"), FALSE)
                /\ set_calendar_name(new_name)
    /\ UNCHANGED <<calendar_list, clearVars>>

\* The owner of the account creates a calendar in the Google Calendar UI
UserCreatesCalendar(summary, description) ==
    /\ GatewayIdle
    /\ Len(calendar_list) < MaxCalendars
    /\ description # CALENDAR_DESCRIPTION_MARKER
    /\ calendar_list' = Append(calendar_list,
                               Calendar(Len(calendar_list) + 1, summary,
                                        description))
    /\ UNCHANGED <<_calendar_name, _calendar_id, gateway_op, clearVars>>

\* ---- clear_calendar, lines 551-638 ----
ClearStep ==
    /\ pc = "idle"
    /\ UNCHANGED <<pipelineVars, storeVars, bodyVars, queryVars,
                   _calendar_name>>

\* clear_calendar ends: it returns deleted_count, or raises
ClearEnds(answer, error) ==
    /\ clear_pc' = "idle"
    /\ gateway_op' = GatewayOp("clear_calendar", answer, error)

\* What events().list(maxResults, pageToken) can answer when `pool` events
\* lie after the listing position: the full page, with a nextPageToken when
\* more events follow it; or, the page being incomplete, fewer events (none,
\* or all but one) and a nextPageToken.
ListAnswers(pool, maxResults, may_be_incomplete) ==
    LET full == Min(pool, maxResults)
    IN  { [items |-> full, nextPageToken |-> (pool > full)] }
        \cup (IF may_be_incomplete /\ full > 0
              THEN { [items |-> k, nextPageToken |-> TRUE] :
                        k \in {0, full - 1} }
              ELSE {})

\* lines 562-566
ClearBegin(outcome) ==
    /\ GatewayIdle
    /\ LET r == get_or_create_calendar(_calendar_id, calendar_list,
                                       _calendar_name, outcome)
       IN  /\ calendar_list' = r.list
           /\ _calendar_id' = r.id
           /\ IF r.error
              THEN /\ ClearEnds(None, TRUE)
              ELSE /\ clear_pc' = "count"
                   /\ UNCHANGED gateway_op
    /\ behind' = 0
    /\ ahead' = behind + ahead
    /\ total_events' = 0
    /\ deleted_count' = 0
    /\ page' = 0
    /\ page_token' = FALSE
    /\ next_token' = FALSE
    /\ zero_listing' = FALSE
    /\ external_writes' = 0
    /\ UNCHANGED <<_calendar_name, incomplete_pages, delete_failures>>

\* lines 569-587: the pages are listed until no nextPageToken comes back,
\* so every event is counted, complete pages or not
ClearCount(ok) ==
    /\ ClearStep
    /\ clear_pc = "count"
    /\ IF ~ok
       THEN /\ ClearEnds(None, TRUE)
            /\ UNCHANGED <<total_events, zero_listing>>
       ELSE /\ total_events' = behind + ahead
            /\ zero_listing' = (behind + ahead = 0)
            /\ IF behind + ahead = 0
               THEN ClearEnds(Some(0), FALSE)
               ELSE /\ clear_pc' = "list"
                    /\ UNCHANGED gateway_op
    /\ UNCHANGED <<calendar_list, _calendar_id, behind, ahead, deleted_count,
                   page, page_token, next_token, external_writes,
                   incomplete_pages, delete_failures, gateway_ops>>

\* lines 591-600: one page of the delete loop.  Without a page token the
\* listing starts at the first event.
ClearList(ok) ==
    /\ ClearStep
    /\ clear_pc = "list"
    /\ IF ~ok
       THEN /\ ClearEnds(None, TRUE)
            /\ UNCHANGED <<behind, ahead, page, next_token, zero_listing,
                           incomplete_pages>>
       ELSE LET before == IF page_token THEN behind ELSE 0
                pool == IF page_token THEN ahead ELSE behind + ahead
            IN  \E a \in ListAnswers(pool, CLEAR_PAGE_SIZE,
                                     incomplete_pages < MaxIncompletePages) :
                  /\ incomplete_pages' =
                        IF a.items < Min(pool, CLEAR_PAGE_SIZE)
                        THEN incomplete_pages + 1 ELSE incomplete_pages
                  /\ behind' = before + a.items
                  /\ ahead' = pool - a.items
                  /\ page' = a.items
                  /\ next_token' = a.nextPageToken
                  /\ IF a.items = 0
                     THEN /\ zero_listing' = TRUE
                          /\ ClearEnds(Some(deleted_count), FALSE)
                     ELSE /\ clear_pc' = "batch"
                          /\ UNCHANGED <<zero_listing, gateway_op>>
    /\ UNCHANGED <<calendar_list, _calendar_id, total_events, deleted_count,
                   page_token, external_writes, delete_failures, gateway_ops>>

\* lines 602-621: the deletions of the page go out as one batch without
\* callback, so a deletion that fails is not seen; `failed` of them fail.
ClearBatch(ok, failed) ==
    /\ ClearStep
    /\ clear_pc = "batch"
    /\ failed \in 0..page
    /\ failed > 0 => delete_failures < MaxDeleteFailures
    /\ IF ~ok
       THEN /\ ClearEnds(None, TRUE)
            /\ UNCHANGED <<behind, deleted_count, page_token, delete_failures>>
       ELSE /\ behind' = behind - (page - failed)
            /\ deleted_count' = deleted_count + page
            /\ delete_failures' =
                  IF failed > 0 THEN delete_failures + 1 ELSE delete_failures
            /\ page_token' = next_token
            /\ clear_pc' = IF next_token THEN "list" ELSE "probe"
            /\ UNCHANGED gateway_op
    /\ UNCHANGED <<calendar_list, _calendar_id, ahead, total_events, page,
                   next_token, zero_listing, external_writes,
                   incomplete_pages, gateway_ops>>

\* lines 622-631: the page tokens are exhausted; a listing of one event
\* from the start
ClearProbe(ok) ==
    /\ ClearStep
    /\ clear_pc = "probe"
    /\ IF ~ok
       THEN /\ ClearEnds(None, TRUE)
            /\ UNCHANGED <<zero_listing, incomplete_pages>>
       ELSE \E a \in ListAnswers(behind + ahead, PROBE_SIZE,
                                 incomplete_pages < MaxIncompletePages) :
              /\ incomplete_pages' =
                    IF a.items < Min(behind + ahead, PROBE_SIZE)
                    THEN incomplete_pages + 1 ELSE incomplete_pages
              /\ IF a.items = 0
                 THEN /\ zero_listing' = TRUE
                      /\ ClearEnds(Some(deleted_count), FALSE)
                 ELSE /\ clear_pc' = "list"
                      /\ UNCHANGED <<zero_listing, gateway_op>>
    /\ UNCHANGED <<calendar_list, _calendar_id, behind, ahead, total_events,
                   deleted_count, page, page_token, next_token,
                   external_writes, delete_failures, gateway_ops>>

\* Another writer (another installation, the owner) adds an event to the
\* calendar while clear_calendar runs
ExternalWrite(after_position) ==
    /\ ClearStep
    /\ clear_pc \in {"count", "list", "probe"}
    /\ external_writes < MaxExternalWrites
    /\ external_writes' = external_writes + 1
    /\ IF after_position
       THEN /\ ahead' = ahead + 1
            /\ UNCHANGED behind
       ELSE /\ behind' = behind + 1
            /\ UNCHANGED ahead
    /\ UNCHANGED <<calendar_list, _calendar_id, gateway_op, clear_pc,
                   total_events, deleted_count, page, page_token, next_token,
                   zero_listing, incomplete_pages, delete_failures, gateway_ops>>

InitCalendarOps ==
    /\ NoPipeline
    /\ calendar_list \in CalendarLists
    /\ _calendar_name = DEFAULT_CALENDAR_NAME
    /\ _calendar_id = NoCalendar
    /\ gateway_op = NoGatewayOp
    /\ gateway_ops = 0
    /\ ahead = 0
    /\ InitClear
    /\ InitBody
    /\ InitQuery
    /\ InitProcs
    /\ InitProgress

NextCalendarOps ==
    \/ \E outcome \in GatewayOutcomes : Gateway_get_or_create_calendar(outcome)
    \/ \E name \in CalendarNames, ok \in BOOLEAN :
            Gateway_check_calendar_name(name, ok)
    \/ \E new_name \in CalendarNames, ok \in BOOLEAN, confirm \in BOOLEAN :
            _save_calendar_name(new_name, ok, confirm)
    \/ \E summary \in CalendarNames, description \in Descriptions :
            UserCreatesCalendar(summary, description)

SpecCalendarOps == InitCalendarOps /\ [][NextCalendarOps]_vars

\* clear_calendar on an account without calendar, with the calendar of
\* this program, or with a calendar of the owner that has the same name
InitClearOps ==
    /\ NoPipeline
    /\ calendar_list \in
            { <<>>,
              << Calendar(1, DEFAULT_CALENDAR_NAME, CALENDAR_DESCRIPTION_MARKER) >>,
              << Calendar(1, DEFAULT_CALENDAR_NAME, "") >> }
    /\ _calendar_name = DEFAULT_CALENDAR_NAME
    /\ _calendar_id = NoCalendar
    /\ gateway_op = NoGatewayOp
    /\ gateway_ops = 0
    /\ ahead \in IF calendar_list = <<>> THEN {0} ELSE EventCounts
    /\ InitClear
    /\ InitBody
    /\ InitQuery
    /\ InitProcs
    /\ InitProgress

NextClearOps ==
    \/ \E outcome \in GatewayOutcomes : ClearBegin(outcome)
    \/ \E ok \in BOOLEAN : ClearCount(ok)
    \/ \E ok \in BOOLEAN : ClearList(ok)
    \/ \E ok \in BOOLEAN, failed \in {0, 1} : ClearBatch(ok, failed)
    \/ \E ok \in BOOLEAN : ClearProbe(ok)
    \/ \E after_position \in BOOLEAN : ExternalWrite(after_position)

SpecClearOps == InitClearOps /\ [][NextClearOps]_vars

\* ------------------------------------------------------------------------
\* clear_calendar alone with the calendar: no other writer.  The batch of
\* deletions has no callback (lines 602-613), so the loop goes on to the
\* probe whatever the service answered to each deletion of the batch.
\* ------------------------------------------------------------------------
\* lines 602-621, the service rejecting deletions of the batch once more (a
\* calendar of the same name the account may only read, a quota): nothing
\* limits how often.  deleted_count decides nothing in the loop; it is
\* counted up to MaxDeletedCount.
ClearBatchRejected(failed) ==
    /\ ClearStep
    /\ clear_pc = "batch"
    /\ failed \in 1..page
    /\ behind' = behind - (page - failed)
    /\ deleted_count' = Min(deleted_count + page, MaxDeletedCount)
    /\ delete_failures' = Min(delete_failures + 1, MaxDeleteFailures)
    /\ page_token' = next_token
    /\ clear_pc' = IF next_token THEN "list" ELSE "probe"
    /\ UNCHANGED <<calendar_list, _calendar_id, ahead, total_events, page,
                   next_token, zero_listing, external_writes,
                   incomplete_pages, gateway_op, gateway_ops>>

\* The deletions of a batch fail in MaxDeleteFailures batches at most
NextClearAlone ==
    \/ \E outcome \in GatewayOutcomes : ClearBegin(outcome)
    \/ \E ok \in BOOLEAN : ClearCount(ok)
    \/ \E ok \in BOOLEAN : ClearList(ok)
    \/ \E ok \in BOOLEAN, failed \in {0, 1} : ClearBatch(ok, failed)
    \/ \E ok \in BOOLEAN : ClearProbe(ok)

\* The loop of clear_calendar is sequential code: a step that can be taken
\* is taken
SpecClearAlone ==
    InitClearOps /\ [][NextClearAlone]_vars /\ WF_vars(NextClearAlone)

\* The deletions of a batch may fail in every batch
NextClearRejected ==
    \/ \E outcome \in GatewayOutcomes : ClearBegin(outcome)
    \/ \E ok \in BOOLEAN : ClearCount(ok)
    \/ \E ok \in BOOLEAN : ClearList(ok)
    \/ \E ok \in BOOLEAN : ClearBatch(ok, 0)
    \/ \E failed \in {1, page} : ClearBatchRejected(failed)
    \/ \E ok \in BOOLEAN : ClearProbe(ok)

SpecClearRejected ==
    InitClearOps /\ [][NextClearRejected]_vars /\ WF_vars(NextClearRejected)

\* ------------------------------------------------------------------------
\* "Clear All Events" of the preferences window (ui/preferences.py:635-659):
\* do_clear calls clear_calendar, then sync_db.initialize(), then
\* sync_db.clear_all_synced_calls(), all in one try whose except shows the
\* error in the status line.  The calendar holds the events of earlier
\* syncs: event k is the event of call k, and the ledger names it.
\* ------------------------------------------------------------------------
ClearAllCounts == {1, 2, CLEAR_PAGE_SIZE + 1}

\* The preferences window as a client of the ledger
Window == 1

InitClearAll ==
    /\ \E n \in ClearAllCounts :
          /\ ahead = n
          /\ synced_calls = [ k \in 1..n |-> k ]
          /\ synced_rows = { SyncedCall(k, k, 0) : k \in 1..n }
    /\ tables_exist = TRUE
    /\ setting_rows = {}
    /\ clock = 0
    /\ last_op = NoOperation
    /\ settings = NoSettings
    /\ remote_calendar = NoCalendar
    /\ calendars_created = 0
    /\ events = {}
    /\ next_event_id = 1
    /\ call_rows = <<>>
    /\ call_db_kind = "CallDatabase"
    /\ pc = "idle"
    /\ InitLocals
    /\ result = NoResult
    /\ submitted = <<>>
    /\ created = {}
    /\ cleared = {}
    /\ requests = <<>>
    /\ failed_outright = {}
    /\ repeat = FALSE
    /\ last_clean = FALSE
    /\ runs = 0
    /\ env_steps = 0
    /\ InitFaults
    /\ calendar_list =
          << Calendar(1, DEFAULT_CALENDAR_NAME, CALENDAR_DESCRIPTION_MARKER) >>
    /\ _calendar_name = DEFAULT_CALENDAR_NAME
    /\ _calendar_id = NoCalendar
    /\ gateway_op = NoGatewayOp
    /\ gateway_ops = 0
    /\ InitClear
    /\ InitBody
    /\ InitQuery
    /\ InitProcs
    /\ InitProgress

\* A method of the ledger raises sqlite3.Error (the file is locked by a
\* sync of the launch agent, the disk is full): nothing is written
Store_raises(p, op) ==
    /\ Tick
    /\ last_op' = Operation(p, op, "", None, None, None, TRUE)
    /\ UNCHANGED <<tables_exist, synced_rows, setting_rows, ledgerVars>>

\* line 644: clear_calendar is called
DoClear_clear_calendar(outcome) ==
    /\ gateway_op.op = "none"
    /\ ClearBegin(outcome)

\* clear_calendar returned its count: line 644 is passed
ClearCalendarReturned ==
    /\ gateway_op.op = "clear_calendar"
    /\ ~gateway_op.error
    /\ clear_pc = "idle"

\* line 649
DoClear_initialize(ok) ==
    /\ ClearCalendarReturned
    /\ last_op.op = "none"
    /\ IF ok THEN Store_initialize(Window)
             ELSE Store_raises(Window, "initialize")

\* line 650
DoClear_clear_all_synced_calls(ok) ==
    /\ ClearCalendarReturned
    /\ last_op.op = "initialize"
    /\ ~last_op.error
    /\ IF ok THEN Store_clear_all_synced_calls(Window)
             ELSE Store_raises(Window, "clear_all_synced_calls")

\* do_clear is over: lines 652-654 showed the count, or line 656 the error
DoClearEnded ==
    /\ gateway_op.op = "clear_calendar"
    /\ clear_pc = "idle"
    /\ \/ gateway_op.error
       \/ last_op.op = "initialize" /\ last_op.error
       \/ last_op.op = "clear_all_synced_calls"

NextClearAll ==
    \/ \E outcome \in GatewayOutcomes : DoClear_clear_calendar(outcome)
    \/ \E ok \in BOOLEAN : ClearCount(ok)
    \/ \E ok \in BOOLEAN : ClearList(ok)
    \/ \E ok \in BOOLEAN, failed \in {0, 1} : ClearBatch(ok, failed)
    \/ \E ok \in BOOLEAN : ClearProbe(ok)
    \/ \E ok \in BOOLEAN : DoClear_initialize(ok)
    \/ \E ok \in BOOLEAN : DoClear_clear_all_synced_calls(ok)

SpecClearAll == InitClearAll /\ [][NextClearAll]_vars

\* ------------------------------------------------------------------------
\* The events the gateway builds and reads back (google_calendar.py):
\* _build_event_body in full, create_event_from_call, create_events_batch
\* and get_synced_call_ids on one calendar.
\* ------------------------------------------------------------------------
\* Glyphs of the titles, by code point
NORTH_EAST_ARROW == "U+2197"
SOUTH_WEST_ARROW == "U+2199"
UPWARDS_ARROW == "U+2191"
DOWNWARDS_ARROW == "U+2193"

Durations == {0, 5, 30, 60, 90, 300, 3600, 5430}
Midday == (Now \div Day - 10) * Day + Day \div 2      \* 12:00:00 of a day
BeforeMidnight == (Now \div Day - 40) * Day - 30      \* 23:59:30 of a day

\* CallRecord in full (call_database.py lines 18-28); call c1 starts at
\* midday, call c2 thirty seconds before midnight.  Incoming calls of a
\* known number take every duration; calls of 300 seconds take every
\* direction, number and name.
FullCalls ==
    { c \in [unique_id : CallIds,
             phone_number : {"", "+15551234567"},
             contact_name : {None, Some("John Doe")},
             timestamp : {Midday, BeforeMidnight},
             duration_seconds : Durations,
             is_answered : {TRUE},
             is_outgoing : BOOLEAN] :
        /\ c.timestamp = (IF c.unique_id = "c1" THEN Midday ELSE BeforeMidnight)
        /\ \/ c.duration_seconds = 300
           \/ /\ c.phone_number # ""
              /\ c.contact_name = None
              /\ ~c.is_outgoing }

\* the calls of a batch
BatchedCalls ==
    { c \in FullCalls : /\ c.phone_number # ""
                        /\ c.contact_name = None
                        /\ ~c.is_outgoing
                        /\ c.duration_seconds \in {5, 300} }

\* Python truth of an Optional[str]
Truthy(x) == x # None /\ x # Some("")
Or(a, b) == IF Truthy(a) THEN a ELSE b

\* call_database.py lines 54-57
display_name(call) ==
    Or(call.contact_name, Or(Some(call.phone_number), Some("Unknown")))

\* contacts.py lines 55-80: the name the address book holds for the number
get_contact_name(phone_number, book) ==
    IF phone_number = "" THEN None ELSE book

\* round(n / d) of Python 3: to the nearest integer, a half to the even one
round(n, d) ==
    LET q == n \div d
        r == n % d
    IN  IF 2 * r < d THEN q
        ELSE IF 2 * r > d THEN q + 1
        ELSE IF q % 2 = 0 THEN q ELSE q + 1

\* lines 402-415: the text between the brackets of the title, as the pieces
\* the f-string joins
duration_str(dur_secs) ==
    LET rounded == round(dur_secs, 60)
        total_mins == IF rounded < 1 THEN 1 ELSE rounded
        hours == total_mins \div 60
        mins == total_mins % 60
    IN  IF total_mins >= 60
        THEN IF mins > 0 THEN <<hours, "h ", mins, "m">> ELSE <<hours, "h">>
        ELSE <<total_mins, "min">>

\* line 418
direction_icon(call) ==
    IF call.is_outgoing THEN NORTH_EAST_ARROW ELSE SOUTH_WEST_ARROW

\* line 420: f"{direction_icon} {display_name} [{duration_str}]"
summary(icon, name, label) == <<icon, " ", name, " [", label, "]">>

\* datetime.isoformat() of a UTC time: the date and the time of day
isoformat(t) == [date |-> t \div Day, time |-> t % Day, offset |-> "+00:00"]

\* datetime.fromisoformat()
fromisoformat(text) == text.date * Day + text.time

\* lines 383-449: the dictionary _build_event_body returns, but for its
\* description
EventBody(call, contact_name, book) ==
    LET found == IF contact_name = None
                 THEN get_contact_name(call.phone_number, book)
                 ELSE contact_name
        fields == _build_event_body(call)
    IN  [summary |-> summary(direction_icon(call),
                             Or(found, display_name(call))[1],
                             duration_str(call.duration_seconds)),
         start |-> [dateTime |-> isoformat(fields.start), timeZone |-> "UTC"],
         end |-> [dateTime |-> isoformat(fields.end), timeZone |-> "UTC"],
         extendedProperties |->
            [private |-> [callUniqueId |-> fields.callUniqueId]]]

\* An event of the calendar, and the call its body was built from
Inserted(id, body, call) == [id |-> id, body |-> body, call |-> call]

\* events().list(timeMin, timeMax): the events that end after timeMin and
\* start before timeMax
ListedBetween(evs, time_min, time_max) ==
    { e \in evs : /\ fromisoformat(e.body.end.dateTime) > time_min
                  /\ fromisoformat(e.body.start.dateTime) < time_max }

\* lines 669-673: result_map[call_id] = event["id"] for the events that
\* carry a callUniqueId; a later event of the listing overwrites an earlier
\* one, and the listing has no stated order
get_synced_call_ids_of(evs) ==
    LET tagged == { e \in evs :
                        e.body.extendedProperties.private.callUniqueId # "" }
        ids == { e.body.extendedProperties.private.callUniqueId : e \in tagged }
    IN  { m \in [ids -> { e.id : e \in tagged }] :
            \A c \in ids :
                \E e \in tagged :
                    /\ e.id = m[c]
                    /\ e.body.extendedProperties.private.callUniqueId = c }

EventOp(op, calls, bodies, answer, error) ==
    [op |-> op, calls |-> calls, bodies |-> bodies, answer |-> answer,
     error |-> error]

EventStep ==
    /\ pc = "idle"
    /\ event_ops < MaxEventOps
    /\ event_ops' = event_ops + 1
    /\ UNCHANGED <<pipelineVars, storeVars, gatewayVars, queryVars>>

FreshId(k) == Cardinality(inserted) + k

\* lines 353-381
Event_create_event_from_call(call, book, ok) ==
    /\ EventStep
    /\ LET event == EventBody(call, None, book)
       IN  IF ok
           THEN /\ inserted' = inserted \cup {Inserted(FreshId(1), event, call)}
                /\ event_op' = EventOp("create_event_from_call", <<call>>,
                                       <<event>>, Some(FreshId(1)), FALSE)
           ELSE /\ event_op' = EventOp("create_event_from_call", <<call>>,
                                       <<event>>, None, TRUE)
                /\ UNCHANGED inserted

\* lines 451-527, for a list of one chunk: `preloaded` is what
\* preload_contacts found for the numbers, `failed` the positions whose
\* insertion fails
Event_create_events_batch(calls, preloaded, book, failed) ==
    /\ EventStep
    /\ LET bodies == [ k \in 1..Len(calls) |->
                            EventBody(calls[k], preloaded, book) ]
           done == (1..Len(calls)) \ failed
       IN  /\ inserted' = inserted \cup
                    { Inserted(FreshId(k), bodies[k], calls[k]) : k \in done }
           /\ event_op' =
                EventOp("create_events_batch", calls, bodies,
                        Some([ k \in 1..Len(calls) |->
                                 IF k \in done
                                 THEN BatchResult(calls[k].unique_id,
                                                  FreshId(k), "")
                                 ELSE BatchResult(calls[k].unique_id, 0,
                                                  "HttpError") ]),
                        FALSE)

\* lines 640-683: a failure of the listing is logged and what was read so
\* far is returned
Event_get_synced_call_ids(time_min, time_max, ok) ==
    /\ pc = "idle"
    /\ UNCHANGED <<pipelineVars, storeVars, gatewayVars, queryVars, event_ops>>
    /\ \E answer \in get_synced_call_ids_of(
                        IF ok THEN ListedBetween(inserted, time_min, time_max)
                        ELSE {}) :
            event_op' = EventOp("get_synced_call_ids",
                                <<time_min, time_max>>, <<>>, Some(answer),
                                ~ok)
    /\ UNCHANGED inserted

TimeRanges == { <<0, Now>>, <<Midday - Day, Midday + Day>> }

CallLists ==
    UNION { [1..n -> BatchedCalls] : n \in 1..2 }

InitEventOps ==
    /\ NoPipeline
    /\ InitGateway
    /\ InitBody
    /\ InitQuery
    /\ InitProcs
    /\ InitProgress

NextEventOps ==
    \/ \E call \in FullCalls, book \in {None, Some("Jane Smith")},
          ok \in BOOLEAN :
            Event_create_event_from_call(call, book, ok)
    \/ \E calls \in CallLists,
          preloaded \in {None, Some("Jane Smith")},
          book \in {None, Some("Jane Smith")} :
         \E failed \in SUBSET (1..Len(calls)) :
            Event_create_events_batch(calls, preloaded, book, failed)
    \/ \E range \in TimeRanges, ok \in BOOLEAN :
            Event_get_synced_call_ids(range[1], range[2], ok)

SpecEventOps == InitEventOps /\ [][NextEventOps]_vars

\* ------------------------------------------------------------------------
\* CallDatabase.get_calls on the table ZCALLRECORD (call_database.py lines
\* 102-180).  ZDATE counts seconds from 2001-01-01; ZDURATION is a real
\* number of seconds, held here in tenths of a second, or NULL (None).
\* ------------------------------------------------------------------------
Since == Now - 1000
MinAges == {0, MIN_AGE_SECONDS}

\* line 66-68
datetime_to_apple_timestamp(dt) == dt - APPLE_EPOCH_OFFSET

\* lines 60-63
apple_timestamp_to_datetime(apple_timestamp) ==
    apple_timestamp + APPLE_EPOCH_OFFSET

\* Times of calls: around `since` and around the two cutoffs
Dates ==
    { datetime_to_apple_timestamp(t) :
        t \in {Since - 1, Since, Now - MIN_AGE_SECONDS - 1,
               Now - MIN_AGE_SECONDS, Now - 1} }

\* answered incoming, missed incoming, answered outgoing, and outgoing
\* calls of 5.0 s, 5.5 s and of NULL duration
Kinds ==
    { [ZANSWERED |-> 1, ZORIGINATED |-> 0, ZDURATION |-> Some(600)],
      [ZANSWERED |-> 0, ZORIGINATED |-> 0, ZDURATION |-> Some(0)],
      [ZANSWERED |-> 1, ZORIGINATED |-> 1, ZDURATION |-> Some(0)],
      [ZANSWERED |-> 0, ZORIGINATED |-> 1, ZDURATION |-> Some(50)],
      [ZANSWERED |-> 0, ZORIGINATED |-> 1, ZDURATION |-> Some(55)],
      [ZANSWERED |-> 0, ZORIGINATED |-> 1, ZDURATION |-> None] }

Rows ==
    { [ZUNIQUE_ID |-> id, ZDATE |-> date, ZDURATION |-> kind.ZDURATION,
       ZANSWERED |-> kind.ZANSWERED, ZORIGINATED |-> kind.ZORIGINATED] :
        id \in CallIds, date \in Dates, kind \in Kinds }

\* The tables of at most n rows
RECURSIVE TablesUpTo(_)
TablesUpTo(n) ==
    IF n = 0 THEN { {} }
    ELSE LET smaller == TablesUpTo(n - 1)
         IN  smaller \cup { t \cup {r} : t \in smaller, r \in Rows }

\* WHERE with a connection test that takes 5 seconds as connected
Where_ConnectAtFive(row, max_apple_timestamp, min_apple_timestamp, answered_only) ==
    /\ row.ZDATE < max_apple_timestamp
    /\ (min_apple_timestamp # None => row.ZDATE >= min_apple_timestamp[1])
    /\ (answered_only =>
            \/ row.ZANSWERED = 1
            \/ /\ row.ZORIGINATED = 1
               /\ row.ZDURATION # None
               /\ row.ZDURATION[1] >= CONNECT_SECONDS * 10)

\* lines 141-155: the WHERE clause; a comparison with NULL is not true
Where(row, max_apple_timestamp, min_apple_timestamp, answered_only) ==
    /\ row.ZDATE < max_apple_timestamp
    /\ (min_apple_timestamp # None => row.ZDATE >= min_apple_timestamp[1])
    /\ (answered_only =>
            \/ row.ZANSWERED = 1
            \/ /\ row.ZORIGINATED = 1
               /\ row.ZDURATION # None
               /\ row.ZDURATION[1] > CONNECT_SECONDS * 10)

\* lines 166-174: the CallRecord of a row; int() cuts the fraction
CallRecordOf(row) ==
    [unique_id |-> row.ZUNIQUE_ID,
     timestamp |-> apple_timestamp_to_datetime(row.ZDATE),
     duration_seconds |-> IF row.ZDURATION = None THEN 0
                          ELSE row.ZDURATION[1] \div 10,
     is_answered |-> (row.ZANSWERED # 0),
     is_outgoing |-> (row.ZORIGINATED # 0)]

\* line 157: GROUP BY ZUNIQUE_ID ORDER BY ZDATE ASC gives one row of each
\* group (SQLite takes the bare columns from some row of the group), the
\* rows in the order of their ZDATE
GroupByOrderBy(selected) ==
    LET ids == { r.ZUNIQUE_ID : r \in selected }
        n == Cardinality(ids)
    IN  { out \in [1..n -> selected] :
            /\ \A a, b \in 1..n :
                    a # b => out[a].ZUNIQUE_ID # out[b].ZUNIQUE_ID
            /\ \A k \in 1..(n - 1) : out[k].ZDATE <= out[k + 1].ZDATE }

\* lines 126-174: what get_calls can yield
CallDatabase_get_calls(table, since_, answered_only, min_age_seconds) ==
    LET cutoff_time == Now - min_age_seconds
        max_apple_timestamp == cutoff_time - APPLE_EPOCH_OFFSET
        min_apple_timestamp ==
            IF since_ = None THEN None
            ELSE Some(datetime_to_apple_timestamp(since_[1]))
        selected == { r \in table :
                        Where(r, max_apple_timestamp, min_apple_timestamp,
                              answered_only) }
    IN  { [ k \in 1..Len(out) |-> CallRecordOf(out[k]) ] :
            out \in GroupByOrderBy(selected) }

Query(since_, answered_only, min_age_seconds, answer) ==
    [op |-> "get_calls",
     args |-> Some([since |-> since_, answered_only |-> answered_only,
                    min_age_seconds |-> min_age_seconds]),
     answer |-> answer]

\* lines 102-180
Source_get_calls(since_, answered_only, min_age_seconds) ==
    /\ pc = "idle"
    /\ \E answer \in CallDatabase_get_calls(ZCALLRECORD, since_,
                                           answered_only, min_age_seconds) :
            query_op' = Query(since_, answered_only, min_age_seconds, answer)
    /\ UNCHANGED <<pipelineVars, storeVars, gatewayVars, bodyVars,
                   ZCALLRECORD>>

InitSourceOps ==
    /\ NoPipeline
    /\ InitGateway
    /\ InitBody
    /\ ZCALLRECORD \in TablesUpTo(MaxSourceRows)
    /\ query_op = NoQuery
    /\ InitProcs
    /\ InitProgress

NextSourceOps ==
    \E since_ \in {None, Some(Since)}, answered_only \in BOOLEAN,
       min_age_seconds \in MinAges :
        Source_get_calls(since_, answered_only, min_age_seconds)

SpecSourceOps == InitSourceOps /\ [][NextSourceOps]_vars

\* ------------------------------------------------------------------------
\* Properties
\* ------------------------------------------------------------------------
IsPrefix(s, t) == Len(s) <= Len(t) /\ \A k \in 1..Len(s) : s[k] = t[k]

\* The run returned a SyncResult to its caller
Returned == pc = "idle" /\ result.status = "returned"

\* Positions of the candidates whose id the ledger held when the run read it
AlreadySynced == { k \in 1..Len(all_calls) : all_calls[k].unique_id \in synced_ids }

\* C1 (dedup across runs): no call handed to the gateway, through
\* create_event_from_call or create_events_batch, has an id that was in the
\* set of synced ids this run read from the ledger, and every candidate with
\* such an id is counted in calls_skipped, during the run and in the result.
C1_DedupAcrossRuns ==
    /\ \A k \in 1..Len(submitted) : submitted[k].unique_id \notin synced_ids
    /\ (pc \in {"create", "mark", "batch_begin", "batch_chunk", "batch_mark",
                "complete"}
            => calls_skipped >= Cardinality(AlreadySynced))
    /\ (Returned => result.calls_skipped >= Cardinality(AlreadySynced))

\* A run that skipped a synced candidate and submitted another has returned
C1_Witness ==
    /\ Returned
    /\ AlreadySynced # {}
    /\ submitted # <<>>
    /\ result.calls_skipped >= 1

\* Positions of the candidates that are absent from the synced ids and are
\* the first of their id in source order
FirstOccurrences ==
    { k \in 1..Len(all_calls) :
        /\ all_calls[k].unique_id \notin synced_ids
        /\ \A j \in 1..(k - 1) : all_calls[j].unique_id # all_calls[k].unique_id }

\* The candidates at those positions, in source order
FirstOccurrenceList ==
    [ n \in 1..Cardinality(FirstOccurrences) |->
        all_calls[CHOOSE k \in FirstOccurrences :
                    Cardinality({ j \in FirstOccurrences : j < k }) = n - 1] ]

\* C2 (dedup across duplicate source rows): the calls handed to the gateway
\* are the first occurrences, in source order and with their own fields, of
\* the candidate ids absent from the ledger; their ids are pairwise distinct;
\* when the creation step is over, in the batch and in the non-batch path,
\* exactly these calls were submitted, each once.
C2_FirstOccurrenceOnly ==
    /\ IsPrefix(submitted, FirstOccurrenceList)
    /\ \A j, k \in 1..Len(submitted) :
            j # k => submitted[j].unique_id # submitted[k].unique_id
    /\ (pc \in {"create", "mark", "batch_begin", "batch_chunk", "batch_mark",
                "complete"}
            => calls_to_sync = FirstOccurrenceList)
    /\ (pc = "complete" => submitted = FirstOccurrenceList)

\* The batch path has handled a candidate list holding two rows of one id
\* with different fields
C2_Witness ==
    /\ pc = "complete"
    /\ Len(results) > 1
    /\ \E j, k \in 1..Len(all_calls) :
            /\ j < k
            /\ all_calls[j].unique_id = all_calls[k].unique_id
            /\ all_calls[j] # all_calls[k]
            /\ all_calls[j] \in Range(submitted)

\* C3 (idempotence): a run that repeats the options of the run before it,
\* which returned success, with the call source unchanged and no step of the
\* environment in between, and that meets no failing collaborator itself,
\* returns calls_synced = 0 and success = true.
C3_Idempotent ==
    (Returned /\ repeat /\ result.errors = <<>>)
        => (result.calls_synced = 0 /\ result.success)

Unmarked ==
    { c \in created :
        ~(c.call_id \in DOMAIN synced_calls /\ synced_calls[c.call_id] = c.id) }

\* C4 (crash safety of interleaved marking): when the process is killed
\* during sync(), every remote event this run created has its ledger record,
\* the one event whose record was being written when the kill came excepted.
C4_NoEventCreatedButUnmarked ==
    (pc = "idle" /\ result.status = "killed") => Cardinality(Unmarked) <= 1

\* C5 (dedup across devices): a run never creates an event for a call while
\* the remote calendar holds an event of another installation tagged with
\* that call's id (event ids grow with creation time).
C5_NoSecondEventAcrossDevices ==
    \A mine, theirs \in events :
        (mine.origin = "self" /\ theirs.origin = "other"
         /\ mine.callUniqueId = theirs.callUniqueId)
            => mine.id < theirs.id

\* C6 (calendar-drift reset): the drift check runs before the synced ids are
\* read and the candidates fetched; when the stored calendar_id is non-empty
\* and differs from the gateway's current calendar id it removes every
\* record of the ledger and stores the new id, and the ids read afterwards
\* in that run hold none of them; when the ids are equal or none was stored
\* it removes no record.
C6_DriftReset ==
    [][ /\ (pc = "drift" =>
              /\ synced_ids = {} /\ all_calls = <<>>
              /\ IF /\ pc' = "window"
                    /\ gateway_calendar_id' # NoCalendar
                    /\ settings.calendar_id # NoCalendar
                    /\ settings.calendar_id # gateway_calendar_id'
                 THEN /\ DOMAIN synced_calls' = {}
                      /\ settings'.calendar_id = gateway_calendar_id'
                      /\ cleared' = DOMAIN synced_calls
                 ELSE /\ synced_calls' = synced_calls
                      /\ cleared' = {})
        /\ (pc = "window" => synced_calls' = synced_calls)
        /\ (pc = "synced_ids" /\ pc' = "fetch" =>
              /\ synced_ids' = DOMAIN synced_calls
              /\ synced_ids' \cap cleared = {})
      ]_vars

\* The drift check removed a record and the same run submitted that call again
C6_Witness ==
    /\ pc = "complete"
    /\ cleared # {}
    /\ \E k \in 1..Len(submitted) : submitted[k].unique_id \in cleared

AfterWindow ==
    {"synced_ids", "fetch", "filter", "create", "mark", "batch_begin",
     "batch_chunk", "batch_mark", "complete"}

AfterFetch ==
    {"filter", "create", "mark", "batch_begin", "batch_chunk", "batch_mark",
     "complete"}

\* C7 (window policy): an explicit since is used as given; with none, a run
\* made while neither initial_sync_done nor sync_all_history is 'true'
\* fetches only the calls of the last 30 days, and otherwise every call.
C7_WindowPolicy ==
    /\ (pc \in AfterWindow =>
          since = IF opts.since # None THEN opts.since
                  ELSE IF settings.initial_sync_done # "true"
                          /\ settings.sync_all_history # "true"
                       THEN Some(Now - 30 * 86400)
                       ELSE None)
    /\ (pc \in AfterFetch =>
          /\ \A k \in 1..Len(all_calls) :
                since # None => all_calls[k].timestamp >= since[1]
          /\ \A k \in 1..Len(call_rows) :
                (since = None \/ call_rows[k].timestamp >= since[1])
                    => call_rows[k].unique_id \in IdsOf(all_calls))

\* A run after the initial sync, with no explicit since, has fetched a call
\* older than 30 days
C7_Witness ==
    /\ pc = "filter"
    /\ opts.since = None
    /\ settings.initial_sync_done = "true"
    /\ settings.sync_all_history # "true"
    /\ \E k \in 1..Len(all_calls) : all_calls[k].timestamp < Now - 30 * 86400

InputOrder(rs) ==
    \A k \in 1..Len(rs) : rs[k].call_id = calls_to_sync[k].unique_id

\* C8 (batch-failure isolation): when the request of a chunk fails outright,
\* create_events_batch still returns, its list holds one result per input
\* call, every call of the failed chunk has event id None and an error, and
\* the calls of the other chunks keep the result of their own item.
C8_BatchFailureIsolation ==
    /\ ~(pc = "idle" /\ result.status = "exception" /\ failed_outright # {})
    /\ (pc = "batch_mark" =>
          /\ Len(results) = Len(calls_to_sync)
          /\ InputOrder(results)
          /\ \A k \in 1..Len(results) :
                IF k \in failed_outright
                THEN results[k].event_id = None /\ results[k].error # None
                ELSE \/ results[k].error = Some("item error")
                     \/ /\ results[k].error = None
                        /\ results[k].event_id # None
                        /\ [id |-> results[k].event_id[1],
                            call_id |-> results[k].call_id] \in created)

\* C9 (chunks and order): create_events_batch issues its requests one after
\* another over consecutive slices of at most 50 calls, every slice but the
\* last holding 50, and the list it returns holds exactly one result per
\* input call, in input order.
C9_ChunksAndOrder ==
    /\ \A r \in 1..Len(requests) :
          /\ requests[r] \in 1..50
          /\ (r < Len(requests) => requests[r] = 50)
    /\ (pc = "batch_chunk" =>
          /\ Len(requests) * 50 = batch_start
          /\ Len(results) = batch_start
          /\ batch_start < Len(calls_to_sync)
          /\ InputOrder(results))
    /\ (pc = "batch_mark" =>
          /\ Len(results) = Len(calls_to_sync)
          /\ InputOrder(results)
          /\ (requests = <<>> => calls_to_sync = <<>>)
          /\ (requests # <<>> =>
                50 * (Len(requests) - 1) + requests[Len(requests)]
                    = Len(calls_to_sync)))

\* Three requests were issued for 101 calls, and the returned list holds
\* created events and failed items
C9_Witness ==
    /\ pc = "batch_mark"
    /\ Len(calls_to_sync) = 101
    /\ requests = <<50, 50, 1>>
    /\ \E j, k \in 1..Len(results) :
          results[j].event_id # None /\ results[k].error # None

ErrorsNaming(id) == { k \in 1..Len(errors) : errors[k].call_id = id }

CreatedIds == { c.call_id : c \in created }

\* C10 (per-record failure recovered): at the end of the creation step of a
\* run, in either path, every call to sync was handed to the gateway, every
\* event created has its ledger record, every call whose creation failed has
\* exactly one error naming its id and the others none, and the result of a
\* run in which a creation failed has success = false.
C10_PerRecordFailureRecovered ==
    /\ (pc = "complete" =>
          /\ submitted = calls_to_sync
          /\ \A c \in created :
                /\ c.call_id \in DOMAIN synced_calls
                /\ synced_calls[c.call_id] = c.id
          /\ calls_synced = Cardinality(created)
          /\ Len(errors) = Len(calls_to_sync) - calls_synced
          /\ \A k \in 1..Len(calls_to_sync) :
                LET id == calls_to_sync[k].unique_id
                IN  Cardinality(ErrorsNaming(id)) =
                        IF id \in CreatedIds THEN 0 ELSE 1)
    /\ (Returned /\ submitted # <<>> =>
          /\ result.errors = errors
          /\ result.calls_synced = Cardinality(created)
          /\ result.success = (Len(submitted) = Cardinality(created)))

\* The first of two calls failed, the second was created and marked after
\* it, and the run returned success = false with the one error
C10_Witness ==
    /\ Returned
    /\ Len(calls_to_sync) = 2
    /\ ~result.success
    /\ result.calls_synced = 1
    /\ Len(result.errors) = 1
    /\ result.errors[1].call_id = calls_to_sync[1].unique_id
    /\ calls_to_sync[2].unique_id \in DOMAIN synced_calls
    /\ calls_to_sync[1].unique_id \notin DOMAIN synced_calls

\* Nothing of the pipeline after the prerequisites has run in this run
NoWorkDone ==
    /\ gateway_calendar_id = NoCalendar
    /\ cleared = {}
    /\ synced_ids = {}
    /\ all_calls = <<>>
    /\ calls_to_sync = <<>>
    /\ submitted = <<>>
    /\ created = {}
    /\ requests = <<>>

\* C12 (ledger bring-up): when initialize() fails, the same step returns
\* success = false, calls_synced = 0, calls_skipped = 0 and exactly one
\* error, leaving ledger, remote calendar and call source as they were; the
\* run has checked no prerequisite and done no work, before or after.
C12_InitializeFailureAborts ==
    /\ []("initialize" \in ledger_failed =>
            /\ Returned
            /\ checked = None
            /\ NoWorkDone)
    /\ [][ ("initialize" \in ledger_failed' /\ "initialize" \notin ledger_failed)
           => /\ pc' = "idle"
              /\ result'.status = "returned"
              /\ ~result'.success
              /\ result'.calls_synced = 0
              /\ result'.calls_skipped = 0
              /\ Len(result'.errors) = 1
              /\ result'.errors[1].msg = "Failed to initialize sync database"
              /\ UNCHANGED <<ledgerVars, remoteVars, sourceVars>>
       ]_vars

\* initialize() failed in a run over a ledger that holds records
C12_Witness ==
    /\ Returned
    /\ "initialize" \in ledger_failed
    /\ Len(result.errors) = 1
    /\ DOMAIN synced_calls # {}

SourceFails(c) == ~c.exists \/ ~c.readable

MessagesOf(errs) == { errs[k].msg : k \in 1..Len(errs) }

\* C13 (prerequisite check): when the call source is missing or unreadable
\* or the gateway is not authenticated, the run returns success = false
\* with one error per failing prerequisite (two when both fail), the step
\* changes neither ledger nor remote calendar, and the run does no drift
\* check, fetch or creation.
C13_PrerequisitesAbort ==
    /\ [](checked # None /\ (SourceFails(checked[1]) \/ ~checked[1].authenticated)
            => /\ Returned
               /\ ~result.success
               /\ result.calls_synced = 0
               /\ Len(result.errors) =
                    (IF SourceFails(checked[1]) THEN 1 ELSE 0)
                    + (IF ~checked[1].authenticated THEN 1 ELSE 0)
               /\ (~checked[1].exists =>
                     "Call history database not found."
                        \in MessagesOf(result.errors))
               /\ (checked[1].exists /\ ~checked[1].readable =>
                     "Cannot read call history. Full Disk Access permission is required."
                        \in MessagesOf(result.errors))
               /\ (~checked[1].authenticated =>
                     "Not authenticated with Google Calendar."
                        \in MessagesOf(result.errors))
               /\ NoWorkDone)
    /\ [][ (pc = "prereq" /\ pc' = "idle")
           => UNCHANGED <<ledgerVars, remoteVars, sourceVars>> ]_vars

\* The call source was unreadable and the gateway not authenticated: two
\* errors, over a ledger that holds records
C13_Witness ==
    /\ Returned
    /\ checked # None
    /\ checked[1].exists /\ ~checked[1].readable /\ ~checked[1].authenticated
    /\ Len(result.errors) = 2
    /\ DOMAIN synced_calls # {}

\* C14 (dry run makes no creation calls): a run with dry_run = true that
\* finds N >= 1 calls to sync returns success = true and calls_synced = N;
\* nothing is handed to create_event_from_call or create_events_batch, no
\* event is created, and no step of the run adds or changes a record of the
\* ledger's synced set.
C14_DryRunCreatesNothing ==
    /\ [](Returned /\ opts.dry_run /\ FirstOccurrences # {}
            => /\ result.success
               /\ result.calls_synced = Cardinality(FirstOccurrences)
               /\ submitted = <<>>
               /\ created = {}
               /\ requests = <<>>)
    /\ [][ (pc # "idle" /\ opts.dry_run)
           => /\ submitted' = <<>> /\ created' = {} /\ requests' = <<>>
              /\ \A id \in DOMAIN synced_calls' :
                    /\ id \in DOMAIN synced_calls
                    /\ synced_calls'[id] = synced_calls[id]
       ]_vars

\* A dry run found two calls to sync and returned calls_synced = 2
C14_Witness ==
    /\ Returned
    /\ opts.dry_run
    /\ Len(calls_to_sync) = 2
    /\ result.success
    /\ result.calls_synced = 2
    /\ events = {}

\* C15 (frame of a dry run): no step of a run with dry_run = true changes
\* the ledger's synced set or its settings, or makes a gateway request
\* (looks the calendar up or creates it).
C15_DryRunFrame ==
    [][ (pc # "idle" /\ opts.dry_run)
        => UNCHANGED <<synced_calls, settings, gateway_calendar_id,
                       calendars_created>> ]_vars

\* C16 (initial_sync_done): the run that reaches the filter step with
\* nothing left to sync returns success = true with calls_synced = 0 and
\* has set initial_sync_done to 'true'; so has every run that returns from
\* the end of the creation step, whatever the creations did.
C16_InitialSyncDoneSet ==
    [][ /\ (pc = "filter" /\ FirstOccurrences = {} /\ pc' # "filter"
            /\ result'.status # "killed")
           => /\ pc' = "idle"
              /\ result'.status = "returned"
              /\ result'.success
              /\ result'.calls_synced = 0
              /\ settings'.initial_sync_done = "true"
        /\ (pc = "complete" /\ pc' # "complete" /\ result'.status # "killed")
           => /\ pc' = "idle"
              /\ result'.status = "returned"
              /\ settings'.initial_sync_done = "true"
      ]_vars

\* The first run handed calls to the gateway, every creation failed, and
\* the run returned with initial_sync_done set
C16_Witness ==
    /\ Returned
    /\ runs = 1
    /\ submitted # <<>>
    /\ created = {}
    /\ ~result.success
    /\ settings.initial_sync_done = "true"

\* C17 (no speculative record): every record that a step adds to the
\* ledger, or whose event id a step changes, belongs to a call for which
\* the gateway returned an event id in this run, and stores that id.
C17_NoSpeculativeRecord ==
    [][ \A id \in DOMAIN synced_calls' :
            (id \notin DOMAIN synced_calls \/ synced_calls'[id] # synced_calls[id])
                => [id |-> synced_calls'[id], call_id |-> id] \in created
      ]_vars

\* Of two calls handed to the gateway one failed and one was created: the
\* ledger holds the record of the created one only
C17_Witness ==
    /\ pc = "complete"
    /\ Len(calls_to_sync) = 2
    /\ Cardinality(created) = 1
    /\ \E k \in 1..2 :
          /\ calls_to_sync[k].unique_id \in DOMAIN synced_calls
          /\ calls_to_sync[3 - k].unique_id \notin DOMAIN synced_calls

\* C11 (ledger failure is fatal): once a ledger operation has raised in a
\* run, the run creates no further remote event, and it ends by returning a
\* SyncResult with success = false.
C11_LedgerFailureFatal ==
    /\ [](ledger_failed # {} /\ pc = "idle"
            => result.status = "returned" /\ ~result.success)
    /\ [][ (ledger_failed # {} /\ pc # "idle") => created' = created ]_vars

\* The ledger as a map is the ledger file read by key
StoreAgreesWithLedger ==
    /\ DOMAIN synced_calls = SelectIds(synced_rows)
    /\ \A r \in synced_rows :
          synced_calls[r.call_unique_id] = r.google_event_id
    /\ \A key \in SettingKeys :
          settings[key] =
            IF \E r \in setting_rows : r.key = key
            THEN (CHOOSE r \in setting_rows : r.key = key).value
            ELSE "None"

\* C18 (one record per call): whatever operations the two processes have
\* made on the ledger file, in whatever order, synced_calls holds at most
\* one row per call_unique_id, and the count of its rows is the size of the
\* set of its ids; the count and the id set the methods answer agree with
\* the table.
C18_OneRecordPerCall ==
    /\ \A r1, r2 \in synced_rows :
          r1.call_unique_id = r2.call_unique_id => r1 = r2
    /\ SelectCount(synced_rows) = Cardinality(SelectIds(synced_rows))
    /\ (last_op.op = "get_synced_call_count" /\ ~last_op.error
          => last_op.answer = Some(Cardinality(SelectIds(synced_rows))))
    /\ (last_op.op = "get_synced_call_ids" /\ ~last_op.error
          => Cardinality(last_op.answer[1]) = SelectCount(synced_rows))

\* The second process marked a call that the table already held with
\* another event id, and the table holds two rows
C18_Witness ==
    /\ last_op.op = "mark_call_synced"
    /\ last_op.client = 2
    /\ last_op.replaced # None
    /\ last_op.replaced[1].google_event_id # last_op.arg[1]
    /\ SelectCount(synced_rows) = 2

Marked == last_op'.op = "mark_call_synced" /\ ~last_op'.error /\ clock' # clock

\* C19 (upsert): mark_call_synced(id, e) leaves the table with exactly one
\* row for id, holding e and the time of this call; every row of another id
\* is as it was; the number of rows is unchanged when id was present and
\* one more otherwise; is_call_synced(id) is then true and
\* get_synced_call(id) answers event id e.
C19_MarkIsUpsert ==
    [][ Marked =>
          LET id == last_op'.key
              e == last_op'.arg[1]
              was == \E r \in synced_rows : r.call_unique_id = id
          IN  /\ { r \in synced_rows' : r.call_unique_id = id }
                    = { SyncedCall(id, e, clock') }
              /\ { r \in synced_rows' : r.call_unique_id # id }
                    = { r \in synced_rows : r.call_unique_id # id }
              /\ SelectCount(synced_rows') =
                    SelectCount(synced_rows) + (IF was THEN 0 ELSE 1)
              /\ SelectSyncedCall(synced_rows', id)
                    = { Some(SyncedCall(id, e, clock')) }
              /\ id \in SelectIds(synced_rows')
      ]_vars

\* A call held with event e1 was marked again with e2: the table holds the
\* row of e2 and the row of the other call
C19_Witness ==
    /\ last_op.op = "mark_call_synced"
    /\ last_op.replaced # None
    /\ last_op.replaced[1].google_event_id = "e1"
    /\ last_op.arg = Some("e2")
    /\ SyncedCall(last_op.key, "e2", clock) \in synced_rows
    /\ SelectCount(synced_rows) = 2

\* C20 (initialize is idempotent): every call of initialize(), the first on
\* a missing file and any later one, raises no error and leaves the rows of
\* synced_calls and of settings as they were; afterwards the tables exist.
C20_InitializeIdempotent ==
    [][ (last_op'.op = "initialize" /\ clock' # clock) =>
          /\ ~last_op'.error
          /\ tables_exist'
          /\ synced_rows' = synced_rows
          /\ setting_rows' = setting_rows
          /\ UNCHANGED ledgerVars
      ]_vars

\* initialize() was called again on a ledger that holds a record and a
\* setting
C20_Witness ==
    /\ last_op.op = "initialize"
    /\ ~last_op.error
    /\ clock >= 4
    /\ synced_rows # {}
    /\ setting_rows # {}

Removed == last_op'.op = "remove_synced_call" /\ ~last_op'.error /\ clock' # clock

Cleared == last_op'.op = "clear_all_synced_calls" /\ ~last_op'.error /\ clock' # clock

\* C21 (removal reports what it removed): remove_synced_call(id) answers
\* true exactly when synced_calls held a row for id; afterwards
\* is_call_synced(id) is false and every other row and every setting is as
\* it was.  clear_all_synced_calls answers the number of rows the table
\* held, leaves it empty and leaves every setting as it was.
C21_RemovalReports ==
    [][ /\ Removed =>
              LET id == last_op'.key
              IN  /\ last_op'.answer =
                        Some(\E r \in synced_rows : r.call_unique_id = id)
                  /\ SelectSyncedCall(synced_rows', id) = { None }
                  /\ id \notin SelectIds(synced_rows')
                  /\ { r \in synced_rows' : r.call_unique_id # id }
                        = { r \in synced_rows : r.call_unique_id # id }
                  /\ setting_rows' = setting_rows
                  /\ settings' = settings
        /\ Cleared =>
              /\ last_op'.answer = Some(Cardinality(SelectIds(synced_rows)))
              /\ synced_rows' = {}
              /\ SelectIds(synced_rows') = {}
              /\ setting_rows' = setting_rows
              /\ settings' = settings
      ]_vars

\* One of the two records of a ledger that holds a setting was removed,
\* with answer true
C21_Witness ==
    /\ setting_rows # {}
    /\ last_op.op = "remove_synced_call"
    /\ last_op.answer = Some(TRUE)
    /\ SelectCount(synced_rows) = 1

SettingOp ==
    /\ last_op'.op \in {"get_setting", "set_setting", "delete_setting"}
    /\ ~last_op'.error
    /\ clock' # clock

\* C22 (settings store): get_setting(key, default) answers default when no
\* set_setting of the key has been made since the key was last deleted (or
\* ever), and the value of the most recent set_setting of the key
\* otherwise; set_setting leaves one row for the key, with the value
\* written, and the other keys as they were; delete_setting answers true
\* exactly when the key was held, and the key then reads as absent; none of
\* the three changes synced_calls.
C22_SettingsStore ==
    [][ SettingOp =>
          LET key == last_op'.key
              held == \E r \in setting_rows : r.key = key
              others(t) == { r \in t : r.key # key }
          IN  /\ synced_rows' = synced_rows
              /\ synced_calls' = synced_calls
              /\ others(setting_rows') = others(setting_rows)
              /\ held = (settings[key] # "None")
              /\ last_op'.op = "get_setting" =>
                    /\ last_op'.answer =
                          Some(IF held THEN Some(settings[key])
                               ELSE last_op'.arg[1])
                    /\ setting_rows' = setting_rows
              /\ last_op'.op = "set_setting" =>
                    /\ { r \in setting_rows' : r.key = key }
                          = { Setting(key, last_op'.arg[1]) }
                    /\ SelectSetting(setting_rows', key) = { last_op'.arg }
              /\ last_op'.op = "delete_setting" =>
                    /\ last_op'.answer = Some(held)
                    /\ SelectSetting(setting_rows', key) = { None }
      ]_vars

\* A key that holds "true" was read with default "false", after three other
\* operations, and gave "true"
C22_Witness ==
    /\ last_op.op = "get_setting"
    /\ ~last_op.error
    /\ clock >= 4
    /\ last_op.key = "sync_all_history"
    /\ last_op.arg = Some(Some("false"))
    /\ setting_rows = { Setting("sync_all_history", "true") }
    /\ last_op.answer = Some(Some("true"))

TargetIsOurs(id) ==
    \A k \in 1..Len(calendar_list) :
        calendar_list[k].id = id =>
            Contains(calendar_list[k].description, CALENDAR_DESCRIPTION_MARKER)

\* C23 (no unrelated calendar is reused): the calendar whose id
\* get_or_create_calendar returns, and the one the gateway holds as its
\* target, carries the marker in its description.
C23_NeverReusesUnrelated ==
    /\ (gateway_op.op = "get_or_create_calendar" /\ ~gateway_op.error
            => TargetIsOurs(gateway_op.answer[1]))
    /\ (_calendar_id # NoCalendar => TargetIsOurs(_calendar_id))

ClearReturned ==
    /\ gateway_op.op = "clear_calendar"
    /\ ~gateway_op.error
    /\ clear_pc = "idle"

\* clear_calendar returns only after a listing that held no item
ReturnsAfterZeroListing == ClearReturned => zero_listing

\* with complete pages and no other writer the calendar is empty on return
EmptyAfterCompletePages ==
    (ClearReturned /\ external_writes = 0 /\ incomplete_pages = 0)
        => behind + ahead = 0

\* C24 (clear_calendar): clear_calendar returns normally only after a
\* listing of the calendar returned no item, and, when no other writer
\* added an event meanwhile, the calendar holds no event when it returns.
C24_ClearLeavesNothing ==
    /\ ReturnsAfterZeroListing
    /\ (ClearReturned /\ external_writes = 0 => behind + ahead = 0)

TagOf(body) == body.extendedProperties.private.callUniqueId

Creates == event_op.op \in {"create_event_from_call", "create_events_batch"}

\* C25 (private tag): every body built by create_event_from_call or by
\* create_events_batch, inserted or not, carries callUniqueId equal to the
\* unique_id of its call, and so does every event of the calendar;
\* get_synced_call_ids then answers a map whose keys are the unique_ids of
\* the calls of the events listed, each key mapped to an event built from
\* that call.
C25_EventsCarryCallId ==
    /\ Creates =>
          \A k \in 1..Len(event_op.bodies) :
              TagOf(event_op.bodies[k]) = event_op.calls[k].unique_id
    /\ \A e \in inserted : TagOf(e.body) = e.call.unique_id
    /\ (event_op.op = "get_synced_call_ids" /\ ~event_op.error) =>
          LET m == event_op.answer[1]
              listed == ListedBetween(inserted, event_op.calls[1],
                                      event_op.calls[2])
          IN  /\ DOMAIN m = { e.call.unique_id : e \in listed }
              /\ \A c \in DOMAIN m :
                    \E e \in listed : e.id = m[c] /\ e.call.unique_id = c

\* The events of two calls, created in one batch, were read back
C25_Witness ==
    /\ event_op.op = "get_synced_call_ids"
    /\ ~event_op.error
    /\ DOMAIN event_op.answer[1] = CallIds
    /\ Cardinality(inserted) = 2

Length(body) ==
    fromisoformat(body["end"].dateTime) - fromisoformat(body.start.dateTime)

\* C26 (minimum visible duration): the end of every event built from a call
\* of duration d >= 0 lies max(d, 60) seconds after its start, so at least
\* 60 seconds: 60 for d = 5, 300 for d = 300.
C26_MinimumDuration ==
    /\ Creates =>
          \A k \in 1..Len(event_op.bodies) :
              LET d == event_op.calls[k].duration_seconds
                  len == Length(event_op.bodies[k])
              IN  d >= 0 =>
                    /\ len = (IF d >= 60 THEN d ELSE 60)
                    /\ len >= 60
                    /\ (d = 5 => len = 60)
                    /\ (d = 300 => len = 300)
    /\ \A e \in inserted :
          Length(e.body) >= 60

\* A call of 5 seconds that started 30 seconds before midnight has an event
\* of 60 seconds, which ends on the next day
C26_Witness ==
    /\ event_op.op = "create_event_from_call"
    /\ ~event_op.error
    /\ event_op.calls[1].duration_seconds = 5
    /\ event_op.calls[1].timestamp = BeforeMidnight
    /\ Length(event_op.bodies[1]) = 60
    /\ event_op.bodies[1]["end"].dateTime.date
            = event_op.bodies[1].start.dateTime.date + 1

\* The title but for its first glyph: the display name and the duration
\* label, "5min" for 300 seconds and "1min" for 60 seconds
TitleButForGlyph ==
    event_op.op = "create_event_from_call" =>
        LET call == event_op.calls[1]
            title == event_op.bodies[1].summary
        IN  /\ Len(title) = 6
            /\ <<title[2], title[4], title[6]>> = <<" ", " [", "]">>
            /\ title[5] = duration_str(call.duration_seconds)
            /\ (call.duration_seconds = 300 => title[5] = <<5, "min">>)
            /\ (call.duration_seconds = 60 => title[5] = <<1, "min">>)
            /\ (call.contact_name = Some("John Doe") /\ call.phone_number = ""
                    => title[3] = "John Doe")

\* C27 (title as the tests assert it): create_event_from_call gives an
\* incoming call a title that starts with the downwards arrow (U+2193) and
\* an outgoing call a title that starts with the upwards arrow (U+2191),
\* followed by the display name and the duration label in brackets.
C27_TitleAsTested ==
    /\ TitleButForGlyph
    /\ event_op.op = "create_event_from_call" =>
          event_op.bodies[1].summary[1] =
              (IF event_op.calls[1].is_outgoing THEN UPWARDS_ARROW
               ELSE DOWNWARDS_ARROW)

\* C28 (call source filter): get_calls(since, answered_only,
\* min_age_seconds) yields records of stored calls that start before now
\* minus min_age_seconds, not before since when since is given, and, when
\* answered_only is set, are marked answered or are outgoing with a
\* duration above 5 seconds; every unique_id that has such a stored call is
\* yielded exactly once; the records come oldest first.
C28_CallSourceFilter ==
    query_op.op = "get_calls" =>
        LET a == query_op.args[1]
            out == query_op.answer
            start(r) == r.ZDATE + APPLE_EPOCH_OFFSET
            Keeps(r) ==
                /\ start(r) < Now - a.min_age_seconds
                /\ (a.since # None => start(r) >= a.since[1])
                /\ (a.answered_only =>
                        \/ r.ZANSWERED = 1
                        \/ /\ r.ZORIGINATED = 1
                           /\ r.ZDURATION # None
                           /\ r.ZDURATION[1] > 50)
            kept == { r \in ZCALLRECORD : Keeps(r) }
        IN  /\ \A k \in 1..Len(out) :
                  \E r \in kept :
                      /\ out[k].unique_id = r.ZUNIQUE_ID
                      /\ out[k].timestamp = start(r)
                      /\ out[k].is_answered = (r.ZANSWERED = 1)
                      /\ out[k].is_outgoing = (r.ZORIGINATED = 1)
            /\ { out[k].unique_id : k \in 1..Len(out) }
                  = { r.ZUNIQUE_ID : r \in kept }
            /\ \A j, k \in 1..Len(out) :
                  j # k => out[j].unique_id # out[k].unique_id
            /\ \A k \in 1..(Len(out) - 1) :
                  out[k].timestamp <= out[k + 1].timestamp

\* With answered_only and since, the outgoing call of 5.5 seconds was
\* yielded, with duration_seconds 5, and the outgoing call of 5.0 seconds,
\* which has another unique_id, was not
C28_Witness ==
    /\ query_op.op = "get_calls"
    /\ query_op.args[1].answered_only
    /\ query_op.args[1].since # None
    /\ Len(query_op.answer) = 1
    /\ query_op.answer[1].is_outgoing
    /\ query_op.answer[1].duration_seconds = 5
    /\ \E r \in ZCALLRECORD :
          r.ZORIGINATED = 1 /\ r.ZDURATION = Some(50)
                            /\ r.ZUNIQUE_ID # query_op.answer[1].unique_id

\* ------------------------------------------------------------------------
\* C30  Runs of sync() that follow one another, none killed, the remote
\* calendar left alone and the ledger never failing: the remote calendar
\* never holds two events this installation created for the same call
\* unique_id, whatever failures the gateway reports.
\* ------------------------------------------------------------------------
OwnEvents == { e \in events : e.origin = "self" }

C30_OneEventPerCall ==
    \A e1, e2 \in OwnEvents :
        e1.callUniqueId = e2.callUniqueId => e1.id = e2.id

\* The same over histories that fit one batched request (Spec), with the
\* environment silent: there no created event is left unmarked
C30_OneEventPerCallInOneChunk ==
    env_steps = 0 => C30_OneEventPerCall

\* ------------------------------------------------------------------------
\* C29  Two runs of sync() that overlap, sharing one ledger: a run creates
\* an event for a call only if the ledger held no record of the call when
\* the run read the synced ids, and creates at most one; so two events of
\* one call come from two runs that both read before either had marked it.
\* The ledger keeps one record per call, and a record points at an event
\* of its call: at one of the two when there are two.
\* ------------------------------------------------------------------------
EventsOf(id) == { e \in events : e.callUniqueId = id }

CreatedBy(p, id) == { e \in EventsOf(id) : e.id \in proc[p].created }

BothDone == \A p \in Procs : proc[p].pc = "idle" /\ proc[p].runs = MaxRunsEach

C29_OverlapDuplicates ==
    /\ \A id \in CallIds, p \in Procs :
            CreatedBy(p, id) # {} => id \notin proc[p].ledger_at_read
    /\ \A id \in CallIds :
            /\ Cardinality(EventsOf(id)) <= MaxRunsEach * Cardinality(Procs)
            /\ id \in DOMAIN synced_calls =>
                    \E e \in EventsOf(id) : synced_calls[id] = e.id

\* Both processes are through, one call has two events, and its single
\* record names one of them
C29_Witness ==
    /\ BothDone
    /\ \E id \in DOMAIN synced_calls :
            /\ Cardinality(EventsOf(id)) = 2
            /\ \A p \in Procs : Cardinality(CreatedBy(p, id)) = 1
            /\ \E e \in EventsOf(id) : synced_calls[id] = e.id
            /\ \E e \in EventsOf(id) : synced_calls[id] # e.id

\* ------------------------------------------------------------------------
\* C31  sync() always hands a SyncResult back: no exception leaves it,
\* whichever collaborator fails (the gateway in create_events_batch, the
\* ledger in mark_call_synced of the batch path or in the write of
\* initial_sync_done).
\* ------------------------------------------------------------------------
C31_NoExceptionEscapes ==
    pc = "idle" => result.status # "exception"

\* ------------------------------------------------------------------------
\* C32 (resumability)  sync() invoked again and again with no explicit
\* since, kills and failures stopping after finitely many runs: eventually
\* every call of the source old enough to be fetched has its record in the
\* ledger, naming a remote event of that call, and from then on every run
\* reports calls_synced = 0.
\* ------------------------------------------------------------------------
Fetchable == { c \in Range(call_rows) : Matches(c, None, TRUE) }

Recorded(c) ==
    /\ c.unique_id \in DOMAIN synced_calls
    /\ \E e \in events :
            e.id = synced_calls[c.unique_id] /\ e.callUniqueId = c.unique_id

AllRecorded == \A c \in Fetchable : Recorded(c)

C32_Resumable ==
    <>[](AllRecorded /\ (pc = "idle" => result.calls_synced = 0))

\* After a kill: a call older than the first window is recorded, and a
\* later run has reported that nothing was left
C32_Witness ==
    /\ env_steps > 0
    /\ runs > MaxRuns
    /\ pc = "idle"
    /\ result.status = "returned"
    /\ result.calls_synced = 0
    /\ AllRecorded
    /\ \E c \in Fetchable : c.timestamp = OldDate
    /\ \E c \in Fetchable : c.timestamp = RecentDate

\* ------------------------------------------------------------------------
\* C33 (drift check is best-effort)  A drift check that fails, in obtaining
\* the calendar id or in a ledger operation, adds no error, ends nothing
\* and leaves the stored calendar_id as it was: the run goes on to window
\* selection, and from there to fetch, filter and creation.
\* ------------------------------------------------------------------------
DriftCheckFails ==
    /\ pc = "drift"
    /\ pc' # "drift"
    /\ result'.status # "killed"
    /\ (gateway_calendar_id' = NoCalendar \/ ledger_failed' # ledger_failed)

C33_DriftCheckTolerated ==
    [][ DriftCheckFails
        => /\ pc' = "window"
           /\ errors' = errors
           /\ result' = result
           /\ settings'.calendar_id = settings.calendar_id ]_vars

\* A run whose drift check failed has created and marked a call and
\* returned without an error
C33_Witness ==
    /\ pc = "idle"
    /\ ledger_failed # {}
    /\ settings.calendar_id = NoCalendar
    /\ result.status = "returned"
    /\ result.success
    /\ result.errors = <<>>
    /\ result.calls_synced > 0

\* ------------------------------------------------------------------------
\* C34  Once initial_sync_done is 'true', a run with no explicit since
\* takes every call of the source that is absent from the ledger, whatever
\* its timestamp, and has submitted each of them when its creation step is
\* over: the calls older than 30 days that the window of the first run left
\* out are created by the next default run.
\* ------------------------------------------------------------------------
DefaultRunAfterInitialSync ==
    /\ opts.since = None
    /\ ~DryRun(opts)
    /\ settings.initial_sync_done = "true"

AbsentFromLedger ==
    { c.unique_id : c \in { r \in Range(call_rows) :
                              Matches(r, None, opts.answered_only) } }
        \ synced_ids

C34_OlderCallsAfterInitialSync ==
    /\ (DefaultRunAfterInitialSync
        /\ pc \in {"create", "mark", "batch_begin", "batch_chunk",
                   "batch_mark", "complete"})
            => IdsOf(calls_to_sync) = AbsentFromLedger
    /\ (DefaultRunAfterInitialSync /\ pc = "complete")
            => IdsOf(submitted) = AbsentFromLedger

\* The second default run has created the call older than 30 days next to
\* the record the first run made of the recent call
C34_Witness ==
    /\ pc = "complete"
    /\ runs = 2
    /\ DefaultRunAfterInitialSync
    /\ settings.sync_all_history # "true"
    /\ synced_ids # {}
    /\ \E c \in created, k \in 1..Len(calls_to_sync) :
            /\ calls_to_sync[k].unique_id = c.call_id
            /\ calls_to_sync[k].timestamp < Now - DEFAULT_SYNC_DAYS * Day
            /\ c.call_id \in DOMAIN synced_calls

\* ------------------------------------------------------------------------
\* C35  Every SyncResult sync() returns has success = true exactly when its
\* error list is empty; a run that returns before the filter step (ledger
\* bring-up, prerequisites, synced ids, fetch) reports at least one error,
\* calls_synced = 0 and calls_skipped = 0.
\* ------------------------------------------------------------------------
BeforeFilter == {"initialize", "prereq", "drift", "window", "synced_ids", "fetch"}

C35_SuccessIffNoErrors ==
    /\ [](Returned => (result.success <=> result.errors = <<>>))
    /\ [][ (pc \in BeforeFilter /\ pc' = "idle" /\ result'.status = "returned")
           => /\ ~result'.success
              /\ result'.errors # <<>>
              /\ result'.calls_synced = 0
              /\ result'.calls_skipped = 0 ]_vars

\* A run that skipped one call, synced one and failed on one has returned
C35_Witness ==
    /\ Returned
    /\ ~result.success
    /\ Len(result.errors) = 1
    /\ result.calls_synced = 1
    /\ result.calls_skipped = 1

\* ------------------------------------------------------------------------
\* C36 (accounting)  When the creation step of a run is over, calls_synced
\* + calls_skipped + the number of errors is the number of candidates
\* fetched, calls_skipped counting the already-synced candidates and the
\* repeated ids alike, and calls_synced is the number of ledger marks the
\* run made: the counter moves by one with each mark and with nothing else.
\* ------------------------------------------------------------------------
MarkedByRun ==
    { id \in DOMAIN synced_calls :
        \E c \in created : c.call_id = id /\ c.id = synced_calls[id] }

C36_Accounting ==
    /\ [](pc = "complete"
            => /\ calls_synced + calls_skipped + Len(errors) = Len(all_calls)
               /\ calls_skipped = Len(all_calls) - Cardinality(FirstOccurrences)
               /\ calls_synced = Cardinality(MarkedByRun))
    /\ [](Returned /\ submitted # <<>>
            => result.calls_synced + result.calls_skipped + Len(result.errors)
                    = Len(all_calls))
    /\ [][ (pc \notin {"idle", "drift"} /\ result'.status # "killed")
           => IF synced_calls' # synced_calls
              THEN pc \in {"mark", "batch_mark"} /\ calls_synced' = calls_synced + 1
              ELSE calls_synced' = calls_synced ]_vars

\* Three candidates, none in the ledger: one repeats an id, one was created
\* and marked, one failed
C36_Witness ==
    /\ pc = "complete"
    /\ Len(all_calls) = 3
    /\ AlreadySynced = {}
    /\ calls_skipped = 1
    /\ calls_synced = 1
    /\ Len(errors) = 1

\* ------------------------------------------------------------------------
\* C37 (progress callback)  Without batching on_progress is called once
\* after each record, created or failed, with (k, total) for k = 1..total;
\* with batching once per chunk, after the chunk's results are collected,
\* with (min(50 * j, total), total) for chunk j.  Either way the completed
\* values grow strictly and the last one is total.
\* ------------------------------------------------------------------------
Total == Len(calls_to_sync)

Batched == opts.use_batch /\ Total > 1

Chunks == (Total + BATCH_SIZE - 1) \div BATCH_SIZE

C37_ProgressCallbacks ==
    /\ \A k \in 1..Len(progress_calls) :
            /\ progress_calls[k][2] = Total
            /\ progress_calls[k][1] =
                    IF Batched THEN Min(BATCH_SIZE * k, Total) ELSE k
            /\ k > 1 => progress_calls[k - 1][1] < progress_calls[k][1]
    /\ (pc \in {"create", "mark"} => Len(progress_calls) = i - 1)
    /\ (pc = "batch_chunk" => Len(progress_calls) * BATCH_SIZE = batch_start)
    /\ (pc \in {"batch_mark", "complete"}
            => /\ Len(progress_calls) = IF Batched THEN Chunks ELSE Total
               /\ Total > 0 => progress_calls[Len(progress_calls)][1] = Total)

\* Two chunks are through: on_progress got (50, 51) and then (51, 51)
C37_Witness ==
    /\ pc = "complete"
    /\ progress_calls = << <<BATCH_SIZE, BATCH_SIZE + 1>>,
                           <<BATCH_SIZE + 1, BATCH_SIZE + 1>> >>

\* ------------------------------------------------------------------------
\* C38 (clear_calendar terminates)  On a calendar nobody else writes to, a
\* clear_calendar that has begun returns or raises, also when the service
\* rejects deletions inside the batches.
\* Violated: deletions that are rejected round after round are listed,
\* sent and found by the probe again without end.
\* ------------------------------------------------------------------------
ClearRunning == clear_pc # "idle"

C38_ClearTerminates == ClearRunning ~> ~ClearRunning

\* It does end when the rejections stop after MaxDeleteFailures batches
\* (checked under SpecClearAlone)
C38_ClearTerminatesAfterRejections ==
    (ClearRunning /\ delete_failures > 0) ~> ~ClearRunning

\* A batch with a rejected deletion has gone out; the probe finds the event
C38_RejectedFoundAgain ==
    /\ clear_pc = "probe"
    /\ delete_failures > 0
    /\ behind + ahead > 0

\* ------------------------------------------------------------------------
\* C39 ("Clear All Events" keeps ledger and calendar consistent)  After
\* do_clear ended, having succeeded or failed part-way, no call is marked
\* synced in the ledger whose event the operation deleted; the ledger is
\* cleared only after clear_calendar returned normally.
\* Violated: clear_calendar raising after a batch was deleted leaves the
\* whole ledger in place.
\* ------------------------------------------------------------------------
\* Every event is named by one ledger record at the start and nothing adds
\* events or records: the records beyond the events left name deleted events
StaleRecords == Max(0, Cardinality(synced_rows) - (behind + ahead))

C39_NoStaleRecordAfterClearAll == DoClearEnded => StaleRecords = 0

\* The second half by itself: the ledger changes only once clear_calendar
\* has returned its count
C39_LedgerClearedAfterReturn ==
    [][synced_rows' # synced_rows => ClearCalendarReturned]_vars

\* The operation went through: calendar and ledger are both empty
C39_BothCleared ==
    /\ DoClearEnded
    /\ last_op.op = "clear_all_synced_calls"
    /\ ~last_op.error
    /\ behind + ahead = 0
    /\ synced_rows = {}
    /\ deleted_count = CLEAR_PAGE_SIZE + 1

====
